---- MODULE Spec2Model ----
(***************************************************************************)
(* Model of django_env.env_wrapper.Env: the environment mapping, its       *)
(* mutators, and the URL resolvers database_url, cache_url, email_url,     *)
(* search_url and queue_url.                                               *)
(*                                                                         *)
(* A Python str that is parsed is a sequence of one-character strings, so  *)
(* that urlparse, split, startswith, replace, upper and int() are computed *)
(* on characters.  Chars("redis") is the character sequence of a literal.  *)
(* Backend / engine identifiers are never inspected by the code and are    *)
(* kept as plain TLA+ strings.                                             *)
(***************************************************************************)
EXTENDS Integers, Sequences, FiniteSets, TLC

\* The characters of every string literal the model uses.
\* ---- literal table ----
Lit ==
       (" is not set in environment" :> <<" ", "i", "s", " ", "n", "o", "t", " ", "s", "e", "t", " ", "i", "n", " ", "e", "n", "v", "i", "r", "o", "n", "m", "e", "n", "t">>)
    @@ ("%20" :> <<"%", "2", "0">>)
    @@ ("%2F" :> <<"%", "2", "F">>)
    @@ ("%2f" :> <<"%", "2", "f">>)
    @@ ("' not found" :> <<"'", " ", "n", "o", "t", " ", "f", "o", "u", "n", "d">>)
    @@ ("-c search_path=" :> <<"-", "c", " ", "s", "e", "a", "r", "c", "h", "_", "p", "a", "t", "h", "=">>)
    @@ ("/" :> <<"/">>)
    @@ ("//" :> <<"/", "/">>)
    @@ ("/5" :> <<"/", "5">>)
    @@ ("/a%2Findex" :> <<"/", "a", "%", "2", "F", "i", "n", "d", "e", "x">>)
    @@ ("/a/b/index/" :> <<"/", "a", "/", "b", "/", "i", "n", "d", "e", "x", "/">>)
    @@ ("/a/index" :> <<"/", "a", "/", "i", "n", "d", "e", "x">>)
    @@ ("/db" :> <<"/", "d", "b">>)
    @@ ("/index" :> <<"/", "i", "n", "d", "e", "x">>)
    @@ ("/index/" :> <<"/", "i", "n", "d", "e", "x", "/">>)
    @@ ("/var/run/q.sock" :> <<"/", "v", "a", "r", "/", "r", "u", "n", "/", "q", ".", "s", "o", "c", "k">>)
    @@ ("0" :> <<"0">>)
    @@ ("0123456789" :> <<"0", "1", "2", "3", "4", "5", "6", "7", "8", "9">>)
    @@ ("1" :> <<"1">>)
    @@ ("5" :> <<"5">>)
    @@ ("://" :> <<":", "/", "/">>)
    @@ (":memory:" :> <<":", "m", "e", "m", "o", "r", "y", ":">>)
    @@ ("A" :> <<"A">>)
    @@ ("ABCDEFGHIJKLMNOPQRSTUVWXYZ" :> <<"A", "B", "C", "D", "E", "F", "G", "H", "I", "J", "K", "L", "M", "N", "O", "P", "Q", "R", "S", "T", "U", "V", "W", "X", "Y", "Z">>)
    @@ ("ATOMIC_REQUESTS" :> <<"A", "T", "O", "M", "I", "C", "_", "R", "E", "Q", "U", "E", "S", "T", "S">>)
    @@ ("AUTOCOMMIT" :> <<"A", "U", "T", "O", "C", "O", "M", "M", "I", "T">>)
    @@ ("AWS_SQS_ENDPOINT" :> <<"A", "W", "S", "_", "S", "Q", "S", "_", "E", "N", "D", "P", "O", "I", "N", "T">>)
    @@ ("B" :> <<"B">>)
    @@ ("BACKEND" :> <<"B", "A", "C", "K", "E", "N", "D">>)
    @@ ("BATCH_SIZE" :> <<"B", "A", "T", "C", "H", "_", "S", "I", "Z", "E">>)
    @@ ("BINARY" :> <<"B", "I", "N", "A", "R", "Y">>)
    @@ ("CACHE_URL" :> <<"C", "A", "C", "H", "E", "_", "U", "R", "L">>)
    @@ ("CONN_MAX_AGE" :> <<"C", "O", "N", "N", "_", "M", "A", "X", "_", "A", "G", "E">>)
    @@ ("DATABASE_URL" :> <<"D", "A", "T", "A", "B", "A", "S", "E", "_", "U", "R", "L">>)
    @@ ("EMAIL_BACKEND" :> <<"E", "M", "A", "I", "L", "_", "B", "A", "C", "K", "E", "N", "D">>)
    @@ ("EMAIL_FILE_PATH" :> <<"E", "M", "A", "I", "L", "_", "F", "I", "L", "E", "_", "P", "A", "T", "H">>)
    @@ ("EMAIL_HOST" :> <<"E", "M", "A", "I", "L", "_", "H", "O", "S", "T">>)
    @@ ("EMAIL_HOST_PASSWORD" :> <<"E", "M", "A", "I", "L", "_", "H", "O", "S", "T", "_", "P", "A", "S", "S", "W", "O", "R", "D">>)
    @@ ("EMAIL_HOST_USER" :> <<"E", "M", "A", "I", "L", "_", "H", "O", "S", "T", "_", "U", "S", "E", "R">>)
    @@ ("EMAIL_PORT" :> <<"E", "M", "A", "I", "L", "_", "P", "O", "R", "T">>)
    @@ ("EMAIL_URL" :> <<"E", "M", "A", "I", "L", "_", "U", "R", "L">>)
    @@ ("EMAIL_USE_SSL" :> <<"E", "M", "A", "I", "L", "_", "U", "S", "E", "_", "S", "S", "L">>)
    @@ ("EMAIL_USE_SSL=0" :> <<"E", "M", "A", "I", "L", "_", "U", "S", "E", "_", "S", "S", "L", "=", "0">>)
    @@ ("EMAIL_USE_TLS" :> <<"E", "M", "A", "I", "L", "_", "U", "S", "E", "_", "T", "L", "S">>)
    @@ ("EMAIL_USE_TLS=0" :> <<"E", "M", "A", "I", "L", "_", "U", "S", "E", "_", "T", "L", "S", "=", "0">>)
    @@ ("EMAIL_USE_TLS=True" :> <<"E", "M", "A", "I", "L", "_", "U", "S", "E", "_", "T", "L", "S", "=", "T", "r", "u", "e">>)
    @@ ("ENGINE" :> <<"E", "N", "G", "I", "N", "E">>)
    @@ ("EXCLUDED_INDEXES" :> <<"E", "X", "C", "L", "U", "D", "E", "D", "_", "I", "N", "D", "E", "X", "E", "S">>)
    @@ ("Expected " :> <<"E", "x", "p", "e", "c", "t", "e", "d", " ">>)
    @@ ("FLAGS" :> <<"F", "L", "A", "G", "S">>)
    @@ ("False" :> <<"F", "a", "l", "s", "e">>)
    @@ ("HOST" :> <<"H", "O", "S", "T">>)
    @@ ("HTTP_METHODS" :> <<"H", "T", "T", "P", "_", "M", "E", "T", "H", "O", "D", "S">>)
    @@ ("HTTP_WRITE_PATHS" :> <<"H", "T", "T", "P", "_", "W", "R", "I", "T", "E", "_", "P", "A", "T", "H", "S">>)
    @@ ("HTTP_WRITE_STICKY" :> <<"H", "T", "T", "P", "_", "W", "R", "I", "T", "E", "_", "S", "T", "I", "C", "K", "Y">>)
    @@ ("INCLUDE_SPELLING" :> <<"I", "N", "C", "L", "U", "D", "E", "_", "S", "P", "E", "L", "L", "I", "N", "G">>)
    @@ ("INDEX_NAME" :> <<"I", "N", "D", "E", "X", "_", "N", "A", "M", "E">>)
    @@ ("Invalid " :> <<"I", "n", "v", "a", "l", "i", "d", " ">>)
    @@ ("Invalid email schema " :> <<"I", "n", "v", "a", "l", "i", "d", " ", "e", "m", "a", "i", "l", " ", "s", "c", "h", "e", "m", "a", " ">>)
    @@ ("Invalid search schema " :> <<"I", "n", "v", "a", "l", "i", "d", " ", "s", "e", "a", "r", "c", "h", " ", "s", "c", "h", "e", "m", "a", " ">>)
    @@ ("KEY_FUNCTION" :> <<"K", "E", "Y", "_", "F", "U", "N", "C", "T", "I", "O", "N">>)
    @@ ("KEY_PREFIX" :> <<"K", "E", "Y", "_", "P", "R", "E", "F", "I", "X">>)
    @@ ("KWARGS" :> <<"K", "W", "A", "R", "G", "S">>)
    @@ ("Key '" :> <<"K", "e", "y", " ", "'">>)
    @@ ("LOCATION" :> <<"L", "O", "C", "A", "T", "I", "O", "N">>)
    @@ ("NAME" :> <<"N", "A", "M", "E">>)
    @@ ("None" :> <<"N", "o", "n", "e">>)
    @@ ("OPTIONS" :> <<"O", "P", "T", "I", "O", "N", "S">>)
    @@ ("PASSWORD" :> <<"P", "A", "S", "S", "W", "O", "R", "D">>)
    @@ ("PATH" :> <<"P", "A", "T", "H">>)
    @@ ("PORT" :> <<"P", "O", "R", "T">>)
    @@ ("POST_LIMIT" :> <<"P", "O", "S", "T", "_", "L", "I", "M", "I", "T">>)
    @@ ("QUEUE_BACKEND" :> <<"Q", "U", "E", "U", "E", "_", "B", "A", "C", "K", "E", "N", "D">>)
    @@ ("QUEUE_LOCATION" :> <<"Q", "U", "E", "U", "E", "_", "L", "O", "C", "A", "T", "I", "O", "N">>)
    @@ ("QUEUE_URL" :> <<"Q", "U", "E", "U", "E", "_", "U", "R", "L">>)
    @@ ("RABBITMQ_HOST" :> <<"R", "A", "B", "B", "I", "T", "M", "Q", "_", "H", "O", "S", "T">>)
    @@ ("RABBITMQ_LOCATION" :> <<"R", "A", "B", "B", "I", "T", "M", "Q", "_", "L", "O", "C", "A", "T", "I", "O", "N">>)
    @@ ("RABBITMQ_PORT" :> <<"R", "A", "B", "B", "I", "T", "M", "Q", "_", "P", "O", "R", "T">>)
    @@ ("READONLY" :> <<"R", "E", "A", "D", "O", "N", "L", "Y">>)
    @@ ("READ_ONLY" :> <<"R", "E", "A", "D", "_", "O", "N", "L", "Y">>)
    @@ ("SEARCH_URL" :> <<"S", "E", "A", "R", "C", "H", "_", "U", "R", "L">>)
    @@ ("SSLMODE" :> <<"S", "S", "L", "M", "O", "D", "E">>)
    @@ ("STORAGE" :> <<"S", "T", "O", "R", "A", "G", "E">>)
    @@ ("T" :> <<"T">>)
    @@ ("TEST" :> <<"T", "E", "S", "T">>)
    @@ ("TIMEOUT" :> <<"T", "I", "M", "E", "O", "U", "T">>)
    @@ ("TIMEOUT=30" :> <<"T", "I", "M", "E", "O", "U", "T", "=", "3", "0">>)
    @@ ("Timeout=2" :> <<"T", "i", "m", "e", "o", "u", "t", "=", "2">>)
    @@ ("Timeout=2&timeout=1" :> <<"T", "i", "m", "e", "o", "u", "t", "=", "2", "&", "t", "i", "m", "e", "o", "u", "t", "=", "1">>)
    @@ ("True" :> <<"T", "r", "u", "e">>)
    @@ ("URL" :> <<"U", "R", "L">>)
    @@ ("USER" :> <<"U", "S", "E", "R">>)
    @@ ("VERSION" :> <<"V", "E", "R", "S", "I", "O", "N">>)
    @@ ("Y" :> <<"Y">>)
    @@ ("a" :> <<"a">>)
    @@ ("abcdefghijklmnopqrstuvwxyz" :> <<"a", "b", "c", "d", "e", "f", "g", "h", "i", "j", "k", "l", "m", "n", "o", "p", "q", "r", "s", "t", "u", "v", "w", "x", "y", "z">>)
    @@ ("amazon" :> <<"a", "m", "a", "z", "o", "n">>)
    @@ ("amazon-ses" :> <<"a", "m", "a", "z", "o", "n", "-", "s", "e", "s">>)
    @@ ("amazon-sqs" :> <<"a", "m", "a", "z", "o", "n", "-", "s", "q", "s">>)
    @@ ("amazonses" :> <<"a", "m", "a", "z", "o", "n", "s", "e", "s">>)
    @@ ("amazonsqs" :> <<"a", "m", "a", "z", "o", "n", "s", "q", "s">>)
    @@ ("backend" :> <<"b", "a", "c", "k", "e", "n", "d">>)
    @@ ("cache" :> <<"c", "a", "c", "h", "e">>)
    @@ ("conn_max_age" :> <<"c", "o", "n", "n", "_", "m", "a", "x", "_", "a", "g", "e">>)
    @@ ("conn_max_age=5" :> <<"c", "o", "n", "n", "_", "m", "a", "x", "_", "a", "g", "e", "=", "5">>)
    @@ ("consolemail" :> <<"c", "o", "n", "s", "o", "l", "e", "m", "a", "i", "l">>)
    @@ ("currentSchema" :> <<"c", "u", "r", "r", "e", "n", "t", "S", "c", "h", "e", "m", "a">>)
    @@ ("currentSchema=" :> <<"c", "u", "r", "r", "e", "n", "t", "S", "c", "h", "e", "m", "a", "=">>)
    @@ ("d" :> <<"d">>)
    @@ ("dbcache" :> <<"d", "b", "c", "a", "c", "h", "e">>)
    @@ ("dummycache" :> <<"d", "u", "m", "m", "y", "c", "a", "c", "h", "e">>)
    @@ ("dummymail" :> <<"d", "u", "m", "m", "y", "m", "a", "i", "l">>)
    @@ ("elasticsearch" :> <<"e", "l", "a", "s", "t", "i", "c", "s", "e", "a", "r", "c", "h">>)
    @@ ("elasticsearch2" :> <<"e", "l", "a", "s", "t", "i", "c", "s", "e", "a", "r", "c", "h", "2">>)
    @@ ("elasticsearch2://h1:5555/a/b/index/" :> <<"e", "l", "a", "s", "t", "i", "c", "s", "e", "a", "r", "c", "h", "2", ":", "/", "/", "h", "1", ":", "5", "5", "5", "5", "/", "a", "/", "b", "/", "i", "n", "d", "e", "x", "/">>)
    @@ ("email_use_tls=1" :> <<"e", "m", "a", "i", "l", "_", "u", "s", "e", "_", "t", "l", "s", "=", "1">>)
    @@ ("en" :> <<"e", "n">>)
    @@ ("export() requires either dictionaries or keyword=value pairs" :> <<"e", "x", "p", "o", "r", "t", "(", ")", " ", "r", "e", "q", "u", "i", "r", "e", "s", " ", "e", "i", "t", "h", "e", "r", " ", "d", "i", "c", "t", "i", "o", "n", "a", "r", "i", "e", "s", " ", "o", "r", " ", "k", "e", "y", "w", "o", "r", "d", "=", "v", "a", "l", "u", "e", " ", "p", "a", "i", "r", "s">>)
    @@ ("filecache" :> <<"f", "i", "l", "e", "c", "a", "c", "h", "e">>)
    @@ ("filemail" :> <<"f", "i", "l", "e", "m", "a", "i", "l">>)
    @@ ("foo" :> <<"f", "o", "o">>)
    @@ ("h1" :> <<"h", "1">>)
    @@ ("http" :> <<"h", "t", "t", "p">>)
    @@ ("http://" :> <<"h", "t", "t", "p", ":", "/", "/">>)
    @@ ("http://h1:5555/a/b" :> <<"h", "t", "t", "p", ":", "/", "/", "h", "1", ":", "5", "5", "5", "5", "/", "a", "/", "b">>)
    @@ ("https://" :> <<"h", "t", "t", "p", "s", ":", "/", "/">>)
    @@ ("index" :> <<"i", "n", "d", "e", "x">>)
    @@ ("ldap" :> <<"l", "d", "a", "p">>)
    @@ ("locmemcache" :> <<"l", "o", "c", "m", "e", "m", "c", "a", "c", "h", "e">>)
    @@ ("memcache" :> <<"m", "e", "m", "c", "a", "c", "h", "e">>)
    @@ ("memorymail" :> <<"m", "e", "m", "o", "r", "y", "m", "a", "i", "l">>)
    @@ ("mssql" :> <<"m", "s", "s", "q", "l">>)
    @@ ("mysql" :> <<"m", "y", "s", "q", "l">>)
    @@ ("mysql-connector" :> <<"m", "y", "s", "q", "l", "-", "c", "o", "n", "n", "e", "c", "t", "o", "r">>)
    @@ ("mysql2" :> <<"m", "y", "s", "q", "l", "2">>)
    @@ ("mysql://h9/db9" :> <<"m", "y", "s", "q", "l", ":", "/", "/", "h", "9", "/", "d", "b", "9">>)
    @@ ("mysqlgis" :> <<"m", "y", "s", "q", "l", "g", "i", "s">>)
    @@ ("no" :> <<"n", "o">>)
    @@ ("ok" :> <<"o", "k">>)
    @@ ("on" :> <<"o", "n">>)
    @@ ("options" :> <<"o", "p", "t", "i", "o", "n", "s">>)
    @@ ("oracle" :> <<"o", "r", "a", "c", "l", "e">>)
    @@ ("p" :> <<"p">>)
    @@ ("pgsql" :> <<"p", "g", "s", "q", "l">>)
    @@ ("postgis" :> <<"p", "o", "s", "t", "g", "i", "s">>)
    @@ ("postgres" :> <<"p", "o", "s", "t", "g", "r", "e", "s">>)
    @@ ("postgresql" :> <<"p", "o", "s", "t", "g", "r", "e", "s", "q", "l">>)
    @@ ("psql" :> <<"p", "s", "q", "l">>)
    @@ ("public" :> <<"p", "u", "b", "l", "i", "c">>)
    @@ ("pymemcache" :> <<"p", "y", "m", "e", "m", "c", "a", "c", "h", "e">>)
    @@ ("pyodbc" :> <<"p", "y", "o", "d", "b", "c">>)
    @@ ("rabbit" :> <<"r", "a", "b", "b", "i", "t">>)
    @@ ("rabbitmq" :> <<"r", "a", "b", "b", "i", "t", "m", "q">>)
    @@ ("rabbitmq://h9" :> <<"r", "a", "b", "b", "i", "t", "m", "q", ":", "/", "/", "h", "9">>)
    @@ ("redis" :> <<"r", "e", "d", "i", "s">>)
    @@ ("redis://h1:5555/5" :> <<"r", "e", "d", "i", "s", ":", "/", "/", "h", "1", ":", "5", "5", "5", "5", "/", "5">>)
    @@ ("redis://h2:5555/5" :> <<"r", "e", "d", "i", "s", ":", "/", "/", "h", "2", ":", "5", "5", "5", "5", "/", "5">>)
    @@ ("redis://h9/9" :> <<"r", "e", "d", "i", "s", ":", "/", "/", "h", "9", "/", "9">>)
    @@ ("rediscache" :> <<"r", "e", "d", "i", "s", "c", "a", "c", "h", "e">>)
    @@ ("rediscache://h1:5555,h2:5555/5" :> <<"r", "e", "d", "i", "s", "c", "a", "c", "h", "e", ":", "/", "/", "h", "1", ":", "5", "5", "5", "5", ",", "h", "2", ":", "5", "5", "5", "5", "/", "5">>)
    @@ ("rediss" :> <<"r", "e", "d", "i", "s", "s">>)
    @@ ("redshift" :> <<"r", "e", "d", "s", "h", "i", "f", "t">>)
    @@ ("simple" :> <<"s", "i", "m", "p", "l", "e">>)
    @@ ("smtp" :> <<"s", "m", "t", "p">>)
    @@ ("smtp+ssl" :> <<"s", "m", "t", "p", "+", "s", "s", "l">>)
    @@ ("smtp+tls" :> <<"s", "m", "t", "p", "+", "t", "l", "s">>)
    @@ ("smtp://h9" :> <<"s", "m", "t", "p", ":", "/", "/", "h", "9">>)
    @@ ("smtps" :> <<"s", "m", "t", "p", "s">>)
    @@ ("solr" :> <<"s", "o", "l", "r">>)
    @@ ("solr://h9/core9" :> <<"s", "o", "l", "r", ":", "/", "/", "h", "9", "/", "c", "o", "r", "e", "9">>)
    @@ ("spatialite" :> <<"s", "p", "a", "t", "i", "a", "l", "i", "t", "e">>)
    @@ ("sqlite" :> <<"s", "q", "l", "i", "t", "e">>)
    @@ ("sqlite://:memory" :> <<"s", "q", "l", "i", "t", "e", ":", "/", "/", ":", "m", "e", "m", "o", "r", "y">>)
    @@ ("t" :> <<"t">>)
    @@ ("timeout" :> <<"t", "i", "m", "e", "o", "u", "t">>)
    @@ ("timeout=1" :> <<"t", "i", "m", "e", "o", "u", "t", "=", "1">>)
    @@ ("timeout=1&Timeout=2" :> <<"t", "i", "m", "e", "o", "u", "t", "=", "1", "&", "T", "i", "m", "e", "o", "u", "t", "=", "2">>)
    @@ ("timeout=30&compress=1" :> <<"t", "i", "m", "e", "o", "u", "t", "=", "3", "0", "&", "c", "o", "m", "p", "r", "e", "s", "s", "=", "1">>)
    @@ ("timeout=5" :> <<"t", "i", "m", "e", "o", "u", "t", "=", "5">>)
    @@ ("u" :> <<"u">>)
    @@ ("unix" :> <<"u", "n", "i", "x">>)
    @@ ("unix:" :> <<"u", "n", "i", "x", ":">>)
    @@ ("unix://" :> <<"u", "n", "i", "x", ":", "/", "/">>)
    @@ ("v" :> <<"v">>)
    @@ ("whoosh" :> <<"w", "h", "o", "o", "s", "h">>)
    @@ ("xapian" :> <<"x", "a", "p", "i", "a", "n">>)
    @@ ("y" :> <<"y">>)
\* ---- end of literal table ----

Chars(lit) == Lit[lit]

(***************************************************************************)
(* Python str primitives on character sequences                            *)
(***************************************************************************)
\* s[n:] and s[:n]: a slice past the end is cut at the end
Drop(s, n) == IF n >= Len(s) THEN <<>> ELSE SubSeq(s, n + 1, Len(s))

Take(s, n) == IF n <= 0 THEN <<>> ELSE SubSeq(s, 1, IF n < Len(s) THEN n ELSE Len(s))

\* str.find: first index (1-based) of character c, 0 when absent
Find(s, c) ==
    LET I == {i \in 1..Len(s) : s[i] = c}
    IN  IF I = {} THEN 0 ELSE CHOOSE i \in I : \A j \in I : i <= j

\* str.rfind: last index (1-based) of character c, 0 when absent
RFind(s, c) ==
    LET I == {i \in 1..Len(s) : s[i] = c}
    IN  IF I = {} THEN 0 ELSE CHOOSE i \in I : \A j \in I : i >= j

StartsWith(s, p) == Len(p) <= Len(s) /\ Take(s, Len(p)) = p

EndsWith(s, p) == Len(p) <= Len(s) /\ Drop(s, Len(s) - Len(p)) = p

\* str.split(c): every piece between occurrences of the character c
RECURSIVE Split(_, _)
Split(s, c) ==
    LET i == Find(s, c)
    IN  IF i = 0 THEN <<s>>
        ELSE <<Take(s, i - 1)>> \o Split(Drop(s, i), c)

\* str.split(c, 1): at most one split, at the first c
Split1(s, c) ==
    LET i == Find(s, c)
    IN  IF i = 0 THEN <<s>> ELSE <<Take(s, i - 1), Drop(s, i)>>

\* str.rsplit(c, 1): at most one split, at the last c
RSplit1(s, c) ==
    LET i == RFind(s, c)
    IN  IF i = 0 THEN <<s>> ELSE <<Take(s, i - 1), Drop(s, i)>>

\* str.rpartition(c): <<before, found, after>>; nothing found puts s last
RPartition(s, c) ==
    LET i == RFind(s, c)
    IN  IF i = 0 THEN [head |-> <<>>, found |-> FALSE, tail |-> s]
        ELSE [head |-> Take(s, i - 1), found |-> TRUE, tail |-> Drop(s, i)]

\* str.partition(c): <<before, found, after>>; nothing found puts s first
Partition(s, c) ==
    LET i == Find(s, c)
    IN  IF i = 0 THEN [head |-> s, found |-> FALSE, tail |-> <<>>]
        ELSE [head |-> Take(s, i - 1), found |-> TRUE, tail |-> Drop(s, i)]

\* str.replace(old, new) for a non-empty old: every occurrence, left to right
RECURSIVE Replace(_, _, _)
Replace(s, old, new) ==
    IF s = <<>> THEN <<>>
    ELSE IF StartsWith(s, old) THEN new \o Replace(Drop(s, Len(old)), old, new)
    ELSE <<Head(s)>> \o Replace(Tail(s), old, new)

\* sep.join(parts)
RECURSIVE Join(_, _)
Join(parts, sep) ==
    IF parts = <<>> THEN <<>>
    ELSE IF Len(parts) = 1 THEN parts[1]
    ELSE parts[1] \o sep \o Join(Tail(parts), sep)

LowerAlpha == Chars("abcdefghijklmnopqrstuvwxyz")

UpperAlpha == Chars("ABCDEFGHIJKLMNOPQRSTUVWXYZ")

Digits == Chars("0123456789")

IsLetter(ch) == \E i \in 1..Len(LowerAlpha) : ch = LowerAlpha[i] \/ ch = UpperAlpha[i]

IsDigitChar(ch) == \E i \in 1..Len(Digits) : ch = Digits[i]

UpperChar(ch) ==
    IF \E i \in 1..Len(LowerAlpha) : LowerAlpha[i] = ch
    THEN UpperAlpha[CHOOSE i \in 1..Len(LowerAlpha) : LowerAlpha[i] = ch]
    ELSE ch

LowerChar(ch) ==
    IF \E i \in 1..Len(UpperAlpha) : UpperAlpha[i] = ch
    THEN LowerAlpha[CHOOSE i \in 1..Len(UpperAlpha) : UpperAlpha[i] = ch]
    ELSE ch

\* str.upper / str.lower
Upper(s) == [i \in 1..Len(s) |-> UpperChar(s[i])]

Lower(s) == [i \in 1..Len(s) |-> LowerChar(s[i])]

\* str.isdigit: non-empty and all digits
IsDigit(s) == s # <<>> /\ \A i \in 1..Len(s) : IsDigitChar(s[i])

DigitVal(ch) == (CHOOSE i \in 1..Len(Digits) : Digits[i] = ch) - 1

\* int(s) for a digit string
RECURSIVE ParseInt(_)
ParseInt(s) ==
    IF s = <<>> THEN 0
    ELSE 10 * ParseInt(Take(s, Len(s) - 1)) + DigitVal(s[Len(s)])

\* str(n) for n >= 0
RECURSIVE IntToStr(_)
IntToStr(n) ==
    IF n < 10 THEN <<Digits[n + 1]>>
    ELSE IntToStr(n \div 10) \o <<Digits[(n % 10) + 1]>>

\* urllib.parse.unquote_plus: '+' is a space, and a %XX escape its character
\* (the escapes of '/' and ' ', in either letter case; any other '%' is kept)
RECURSIVE UnquotePlus(_)
UnquotePlus(s) ==
    IF s = <<>> THEN <<>>
    ELSE IF Head(s) = "+" THEN <<" ">> \o UnquotePlus(Tail(s))
    ELSE IF StartsWith(s, Chars("%2f")) \/ StartsWith(s, Chars("%2F"))
         THEN <<"/">> \o UnquotePlus(Drop(s, 3))
    ELSE IF StartsWith(s, Chars("%20")) THEN <<" ">> \o UnquotePlus(Drop(s, 3))
    ELSE <<Head(s)>> \o UnquotePlus(Tail(s))

(***************************************************************************)
(* Python values: a record tagged with its type.  "id" is a str the code   *)
(* never looks into (a backend or engine path).                            *)
(***************************************************************************)
None == [t |-> "none"]

StrV(s) == [t |-> "str", v |-> s]

IntV(n) == [t |-> "int", v |-> n]

BoolV(b) == [t |-> "bool", v |-> b]

ListV(l) == [t |-> "list", v |-> l]

IdV(name) == [t |-> "id", v |-> name]

DictV(d) == [t |-> "dict", v |-> d]

\* a bytes object, by its characters
BytesV(s) == [t |-> "bytes", v |-> s]

\* a dict whose order of insertion is kept: a sequence of [key, value]
OdictV(items) == [t |-> "odict", v |-> items]

\* bool(x): the truth value Python gives a value
Truthy(x) ==
    CASE x.t = "none" -> FALSE
      [] x.t = "str"  -> x.v # <<>>
      [] x.t = "bytes" -> x.v # <<>>
      [] x.t = "int"  -> x.v # 0
      [] x.t = "bool" -> x.v
      [] x.t = "list" -> x.v # <<>>
      [] x.t = "dict" -> DOMAIN x.v # {}
      [] x.t = "odict" -> x.v # <<>>
      [] x.t = "id"   -> TRUE

\* x or y
Or(x, y) == IF Truthy(x) THEN x ELSE y

EmptyDict == [k \in {} |-> None]

\* dict.update: the entries of upd replace and extend those of d
Update(d, upd) ==
    [k \in DOMAIN d \cup DOMAIN upd |-> IF k \in DOMAIN upd THEN upd[k] ELSE d[k]]

\* del d[k]
Delete(d, k) == [j \in DOMAIN d \ {k} |-> d[j]]

(***************************************************************************)
(* urllib.parse.urlparse, for URLs without ';' parameters or brackets      *)
(***************************************************************************)
SchemeChars == {"+", "-", "."}

IsSchemeChar(ch) == IsLetter(ch) \/ IsDigitChar(ch) \/ ch \in SchemeChars

\* _splitnetloc(url, 2): the authority runs to the first of '/', '?', '#'
SplitNetloc(url) ==
    LET rest == Drop(url, 2)
        I == {i \in 1..Len(rest) : rest[i] \in {"/", "?", "#"}}
        d == IF I = {} THEN Len(rest) + 1 ELSE CHOOSE i \in I : \A j \in I : i <= j
    IN  [netloc |-> Take(rest, d - 1), url |-> Drop(rest, d - 1)]

\* the index of the ':' that ends a scheme (a letter, then scheme characters),
\* 0 when the url starts with no scheme
SchemeEnd(raw) ==
    LET i == Find(raw, ":")
    IN  IF /\ i > 1
           /\ IsLetter(raw[1])
           /\ \A k \in 1..(i - 1) : IsSchemeChar(raw[k])
        THEN i ELSE 0

\* the authority after '//' when there is one, and what follows it
SplitAuthority(rest) ==
    IF Take(rest, 2) = <<"/", "/">> THEN SplitNetloc(rest)
    ELSE [netloc |-> <<>>, url |-> rest]

\* path, query and fragment of what follows the authority
UrlTail(scheme, na) ==
    LET f == Split1(na.url, "#")
        q == Split1(f[1], "?")
    IN  [scheme |-> scheme,
         netloc |-> na.netloc,
         path |-> q[1],
         query |-> IF Len(q) > 1 THEN q[2] ELSE <<>>,
         fragment |-> IF Len(f) > 1 THEN f[2] ELSE <<>>]

UrlFrom(raw, i) ==
    UrlTail(IF i > 0 THEN Lower(Take(raw, i - 1)) ELSE <<>>,
            SplitAuthority(IF i > 0 THEN Drop(raw, i) ELSE raw))

urlparse(raw) == UrlFrom(raw, SchemeEnd(raw))

\* ParseResult.username
username(url) ==
    LET at == RPartition(url.netloc, "@")
    IN  IF at.found THEN StrV(Partition(at.head, ":").head) ELSE None

\* ParseResult.password
password(url) ==
    LET at == RPartition(url.netloc, "@")
        up == Partition(at.head, ":")
    IN  IF at.found /\ up.found THEN StrV(up.tail) ELSE None

\* ParseResult._hostinfo: <<hostname, port>> around the first ':' after the last
\* '@'; an empty port is None
hostinfo(url) ==
    LET hi == RPartition(url.netloc, "@").tail
        hp == Partition(hi, ":")
    IN  [host |-> hp.head, port |-> IF hp.tail = <<>> THEN None ELSE StrV(hp.tail)]

\* ParseResult.hostname: lower-cased, None when empty
hostname(url) ==
    LET h == hostinfo(url).host
    IN  IF h = <<>> THEN None ELSE StrV(Lower(h))

\* ParseResult.port: an int, None, or the ValueError of a port that is no number
port(url) ==
    LET p == hostinfo(url).port
    IN  IF p = None THEN None
        ELSE IF IsDigit(p.v) /\ ParseInt(p.v) <= 65535 THEN IntV(ParseInt(p.v))
        ELSE [t |-> "ValueError"]

\* urlunparse((scheme, netloc, path, '', '', '')) for a scheme that uses a netloc
urlunparse(scheme, netloc, path) ==
    LET p1 == IF path # <<>> /\ Head(path) # "/" THEN <<"/">> \o path ELSE path
        u == IF netloc # <<>> \/ Take(path, 2) # <<"/", "/">>
             THEN <<"/", "/">> \o netloc \o p1
             ELSE path
    IN  IF scheme # <<>> THEN scheme \o <<":">> \o u ELSE u

\* parse_qs(query): the fields between '&' as key=value, blank values dropped,
\* values of a repeated key kept in order; here the keys in order of first
\* appearance, and each key's list of values
QueryFields(query) ==
    LET parts == Split(query, "&")
        kv(p) == Partition(p, "=")
    IN  SelectSeq([i \in 1..Len(parts) |->
                      [key |-> UnquotePlus(kv(parts[i]).head),
                       value |-> UnquotePlus(kv(parts[i]).tail)]],
                  LAMBDA f : f.value # <<>>)

RECURSIVE QsItems(_, _, _)
QsItems(fs, all, seen) ==
    IF fs = <<>> THEN <<>>
    ELSE IF Head(fs).key \in seen THEN QsItems(Tail(fs), all, seen)
    ELSE LET sel == SelectSeq(all, LAMBDA f : f.key = Head(fs).key)
         IN  <<[key |-> Head(fs).key,
                values |-> [i \in 1..Len(sel) |-> sel[i].value]]>>
             \o QsItems(Tail(fs), all, seen \cup {Head(fs).key})

\* parse_qs(query).items(): <<key, values>> in order of the key's first appearance
parse_qs(query) == QsItems(QueryFields(query), QueryFields(query), {})

\* 'key' in parse_qs(query).keys()
QsHas(params, k) == \E i \in 1..Len(params) : params[i].key = k

\* parse_qs(query)[key][0]
QsFirst(params, k) ==
    params[CHOOSE i \in 1..Len(params) : params[i].key = k].values[1]

(***************************************************************************)
(* Scheme tables                                                           *)
(***************************************************************************)
DEFAULT_DATABASE_ENV == Chars("DATABASE_URL")

DJANGO_POSTGRES == IdV("django.db.backends.postgresql")

MYSQL_DRIVER == IdV("django.db.backends.mysql")

DB_SCHEMES ==
       (Chars("postgres") :> DJANGO_POSTGRES)
    @@ (Chars("postgresql") :> DJANGO_POSTGRES)
    @@ (Chars("psql") :> DJANGO_POSTGRES)
    @@ (Chars("pgsql") :> DJANGO_POSTGRES)
    @@ (Chars("postgis") :> IdV("django.contrib.gis.db.backends.postgis"))
    @@ (Chars("mysql") :> MYSQL_DRIVER)
    @@ (Chars("mysql2") :> MYSQL_DRIVER)
    @@ (Chars("mysql-connector") :> IdV("mysql.connector.django"))
    @@ (Chars("mysqlgis") :> IdV("django.contrib.gis.db.backends.mysql"))
    @@ (Chars("mssql") :> IdV("sql_server.pyodbc"))
    @@ (Chars("oracle") :> IdV("django.db.backends.oracle"))
    @@ (Chars("pyodbc") :> IdV("sql_server.pyodbc"))
    @@ (Chars("redshift") :> IdV("django_redshift_backend"))
    @@ (Chars("spatialite") :> IdV("django.contrib.gis.db.backends.spatialite"))
    @@ (Chars("sqlite") :> IdV("django.db.backends.sqlite3"))
    @@ (Chars("ldap") :> IdV("ldapdb.backends.ldap"))

_DB_BASE_OPTIONS ==
    {Chars("CONN_MAX_AGE"), Chars("ATOMIC_REQUESTS"), Chars("AUTOCOMMIT"),
     Chars("SSLMODE"), Chars("TEST"), Chars("READ_ONLY"), Chars("READONLY"),
     Chars("HTTP_METHODS"), Chars("HTTP_WRITE_PATHS"), Chars("HTTP_WRITE_STICKY")}

DEFAULT_CACHE_ENV == Chars("CACHE_URL")

REDIS_CACHE == IdV("django_redis.cache.RedisCache")

CACHE_SCHEMES ==
       (Chars("dbcache") :> IdV("django.core.cache.backends.db.DatabaseCache"))
    @@ (Chars("dummycache") :> IdV("django.core.cache.backends.dummy.DummyCache"))
    @@ (Chars("filecache") :> IdV("django.core.cache.backends.filebased.FileBasedCache"))
    @@ (Chars("locmemcache") :> IdV("django.core.cache.backends.locmem.LocMemCache"))
    @@ (Chars("memcache") :> IdV("django.core.cache.backends.memcached.MemcachedCache"))
    @@ (Chars("pymemcache") :> IdV("django.core.cache.backends.memcached.PyLibMCCache"))
    @@ (Chars("rediscache") :> REDIS_CACHE)
    @@ (Chars("redis") :> REDIS_CACHE)

_CACHE_BASE_OPTIONS ==
    {Chars("TIMEOUT"), Chars("KEY_PREFIX"), Chars("VERSION"), Chars("KEY_FUNCTION"),
     Chars("BINARY")}

DEFAULT_EMAIL_ENV == Chars("EMAIL_URL")

EMAIL_AMAZON_SES == IdV("django_ses.SESBackend")

EMAIL_SMTP == IdV("django.core.mail.backends.smtp.EmailBackend")

EMAIL_SCHEMES ==
       (Chars("smtp") :> EMAIL_SMTP)
    @@ (Chars("smtps") :> EMAIL_SMTP)
    @@ (Chars("smtp+tls") :> EMAIL_SMTP)
    @@ (Chars("smtp+ssl") :> EMAIL_SMTP)
    @@ (Chars("consolemail") :> IdV("django.core.mail.backends.console.EmailBackend"))
    @@ (Chars("filemail") :> IdV("django.core.mail.backends.filebased.EmailBackend"))
    @@ (Chars("memorymail") :> IdV("django.core.mail.backends.locmem.EmailBackend"))
    @@ (Chars("dummymail") :> IdV("django.core.mail.backends.dummy.EmailBackend"))
    @@ (Chars("amazonses") :> EMAIL_AMAZON_SES)
    @@ (Chars("amazon-ses") :> EMAIL_AMAZON_SES)

_EMAIL_BASE_OPTIONS == {Chars("EMAIL_USE_TLS"), Chars("EMAIL_USE_SSL")}

DEFAULT_SEARCH_ENV == Chars("SEARCH_URL")

SEARCH_SCHEMES ==
       (Chars("elasticsearch") :>
            IdV("haystack.backends.elasticsearch_backend.ElasticsearchSearchEngine"))
    @@ (Chars("elasticsearch2") :>
            IdV("haystack.backends.elasticsearch2_backend.Elasticsearch2SearchEngine"))
    @@ (Chars("solr") :> IdV("haystack.backends.solr_backend.SolrEngine"))
    @@ (Chars("whoosh") :> IdV("haystack.backends.whoosh_backend.WhooshEngine"))
    @@ (Chars("xapian") :> IdV("haystack.backends.xapian_backend.XapianEngine"))
    @@ (Chars("simple") :> IdV("haystack.backends.simple_backend.SimpleEngine"))

DEFAULT_QUEUE_ENV == Chars("QUEUE_URL")

\* each entry: the backend, and the default port (None when the entry has none)
QUEUE_SCHEMES ==
       (Chars("rabbitmq") :>
            [backend |-> IdV("mq.backends.rabbitmq_backend.create_backend"),
             defaultPort |-> IntV(5672)])
    @@ (Chars("redis") :> [backend |-> REDIS_CACHE, defaultPort |-> IntV(6379)])
    @@ (Chars("amazonsqs") :>
            [backend |-> IdV("mq.backends.sqs_backend.create_backend"),
             defaultPort |-> None])
    @@ (Chars("amazon-sqs") :>
            [backend |-> IdV("mq.backends.sqs_backend.create_backend"),
             defaultPort |-> None])

_QUEUE_BASE_OPTIONS == {}

(***************************************************************************)
(* Env: the mapping self._env is a function from names to values; a method *)
(* is the outcome of its call: what it returns or raises, and the mapping  *)
(* it leaves behind.                                                       *)
(***************************************************************************)
Return(val, e) == [kind |-> "return", val |-> val, env |-> e]

Raise(cls, msg, e) == [kind |-> "raise", cls |-> cls, msg |-> msg, env |-> e]

_EXCEPTION_CLS == "KeyError"

\* str(x)
PyStr(x) ==
    CASE x.t = "str"  -> x.v
      [] x.t = "int"  -> IntToStr(x.v)
      [] x.t = "none" -> Chars("None")
      [] x.t = "bool" -> IF x.v THEN Chars("True") ELSE Chars("False")

\* sub in s
Contains(s, sub) ==
    \E i \in 1..(Len(s) - Len(sub) + 1) : SubSeq(s, i, i + Len(sub) - 1) = sub

\* a get that forgets its default
get_without_default(e, var, default) == IF var \in DOMAIN e THEN e[var] ELSE None

\* Env.get
get(e, var, default) == IF var \in DOMAIN e THEN e[var] ELSE default

\* Env.set
set(e, var, value) ==
    Update(e, var :> (IF value # None THEN StrV(PyStr(value)) ELSE value))

\* Env.unset
unset(e, var) == IF var \in DOMAIN e THEN Delete(e, var) ELSE e

\* Env.pop
pop(e, var, default) == Return(get(e, var, default), unset(e, var))

\* Env.setdefault: the value the mapping holds under var afterwards
setdefault(e, var, value) ==
    IF var \in DOMAIN e THEN Return(e[var], e)
    ELSE Return(set(e, var, value)[var], set(e, var, value))

\* a turn of the keyword loop that stores a None instead of removing the key
ExportPairStored(e, var, value) == set(e, var, value)

\* one turn of the keyword loop of Env.export
ExportPair(e, var, value) == IF value = None THEN unset(e, var) ELSE set(e, var, value)

\* the keyword loop of Env.export, over the pairs in the order they were given
RECURSIVE ExportKwargs(_, _)
ExportKwargs(e, kwargs) ==
    IF kwargs = <<>> THEN e
    ELSE ExportKwargs(ExportPair(e, kwargs[1].key, kwargs[1].value), Tail(kwargs))

\* the loop of Env.export over its positional arguments: each dictionary is
\* exported in turn, and the first argument that is no dictionary raises
\* with the earlier ones already applied
RECURSIVE ExportArgs(_, _)
ExportArgs(e, args) ==
    IF args = <<>> THEN Return(None, e)
    ELSE IF args[1].t # "odict"
    THEN Raise("TypeError",
               Chars("export() requires either dictionaries or keyword=value pairs"), e)
    ELSE ExportArgs(ExportKwargs(e, args[1].v), Tail(args))

\* the keyword loop that follows the positional arguments, unless they raised
ExportAfter(out, kwargs) ==
    IF out.kind = "raise" THEN out ELSE Return(None, ExportKwargs(out.env, kwargs))

\* Env.export
export(e, args, kwargs) == ExportAfter(ExportArgs(e, args), kwargs)

\* Env.__contains__: str(var) in self.env
__contains__(e, var) == PyStr(var) \in DOMAIN e

\* Env.__getitem__: self.get(var) finds the name only if var is a str
__getitem__(e, exc, var) ==
    IF ~__contains__(e, var)
    THEN Raise(exc, Chars("Key '") \o PyStr(var) \o Chars("' not found"), e)
    ELSE Return(IF var.t = "str" THEN get(e, var.v, None) ELSE None, e)

\* Env._int
_int(val) ==
    IF val.t = "int" THEN val
    ELSE IF Truthy(val) /\ IsDigit(val.v) THEN IntV(ParseInt(val.v))
    ELSE IntV(0)

\* a _check_var that takes the variable out of the mapping as it reads it
_check_var_pop(e, exc, var, default) ==
    IF var = <<>> THEN Return(StrV(<<>>), e)
    ELSE IF ~Truthy(get(e, var, default))
    THEN Raise(exc, Chars("Expected ") \o var \o Chars(" is not set in environment"),
               unset(e, var))
    ELSE Return(get(e, var, default), unset(e, var))

_BOOLEAN_TRUE_STRINGS ==
    <<Chars("T"), Chars("t"), Chars("1"), Chars("on"), Chars("ok"), Chars("Y"),
      Chars("y"), Chars("en")>>

\* what the generator expression of Env._BOOLEAN_TRUE_BYTES has to yield
\* when the class is made: the strings, encoded one by one
TrueBytes == _BOOLEAN_TRUE_STRINGS

\* Env._true_values: the tuple for a str; for a bytes the one generator of the
\* class, given by the items it has yet to yield
_true_values(val, trueBytes) ==
    IF val.t = "str" THEN _BOOLEAN_TRUE_STRINGS ELSE trueBytes

\* any([val.startswith(v) for v in true_vals])
AnyPrefix(val, true_vals) ==
    \E i \in 1..Len(true_vals) : StartsWith(val.v, true_vals[i])

\* what the list comprehension leaves of the generator: a tuple stays what it
\* is, the generator is run to its end
Consumed(val, trueBytes) == IF val.t = "str" THEN trueBytes ELSE <<>>

\* Env.is_true: what it returns and what it leaves of the generator
is_true(val, trueBytes) ==
    IF val \in {None, BoolV(FALSE), StrV(<<>>), IntV(0), StrV(Chars("0"))}
    THEN [val |-> FALSE, left |-> trueBytes]
    ELSE IF val.t \notin {"str", "bytes"}
    THEN [val |-> Truthy(val), left |-> trueBytes]
    ELSE IF val.v = <<>>
    THEN [val |-> FALSE, left |-> trueBytes]
    ELSE [val |-> AnyPrefix(val, _true_values(val, trueBytes)),
          left |-> Consumed(val, trueBytes)]

\* what the code makes of a str of a query: the str itself, self._int of it,
\* self.is_true of it, or its split(',')
Convert(how, val) ==
    CASE how = "same" -> val
      [] how = "int" -> _int(val)
      [] how = "bool" -> BoolV(is_true(val, TrueBytes).val)
      [] how = "split" -> ListV(Split(val.v, ","))

\* Env._check_var
_check_var(e, exc, var, default) ==
    IF var = <<>> THEN Return(StrV(<<>>), e)
    ELSE LET url == get(e, var, default)
         IN  IF ~Truthy(url)
             THEN Raise(exc, Chars("Expected ") \o var
                                \o Chars(" is not set in environment"), e)
             ELSE Return(url, e)

(***************************************************************************)
(* Insertion-ordered dict (db_options and the options argument, whose      *)
(* order decides which of two keys with one upper-cased form wins)         *)
(***************************************************************************)
OdHas(od, k) == \E i \in 1..Len(od) : od[i].key = k

OdGet(od, k) == od[CHOOSE i \in 1..Len(od) : od[i].key = k].value

\* od[k] = v: in place when k is there, appended otherwise
OdPut(od, k, v) ==
    IF OdHas(od, k)
    THEN [i \in 1..Len(od) |-> IF od[i].key = k THEN [key |-> k, value |-> v] ELSE od[i]]
    ELSE Append(od, [key |-> k, value |-> v])

OdDel(od, k) == SelectSeq(od, LAMBDA it : it.key # k)

\* {k.upper(): v for k, v in od.items()}
RECURSIVE UpperDict(_)
UpperDict(od) ==
    IF od = <<>> THEN EmptyDict
    ELSE Update(UpperDict(Take(od, Len(od) - 1)),
                Upper(od[Len(od)].key) :> od[Len(od)].value)

\* the url's path without its first character, cut at a '?', unquoted
DecodedPath(url) == UnquotePlus(Split(Drop(url.path, 1), "?")[1])

(***************************************************************************)
(* Env.database_url                                                        *)
(***************************************************************************)
\* the loop over parse_qs(url.query).items(): acc is [config, db_options]
RECURSIVE DbQueryLoop(_, _)
DbQueryLoop(items, acc) ==
    IF items = <<>> THEN acc
    ELSE DbQueryLoop(Tail(items),
             IF Upper(Head(items).key) \in _DB_BASE_OPTIONS
             THEN [acc EXCEPT !.config =
                      Update(@, Upper(Head(items).key) :> StrV(Head(items).values[1]))]
             ELSE [acc EXCEPT !.db_options =
                      OdPut(@, Head(items).key, _int(StrV(Head(items).values[1])))])

\* the loop over options.items()
RECURSIVE DbOptionsLoop(_, _)
DbOptionsLoop(items, acc) ==
    IF items = <<>> THEN acc
    ELSE DbOptionsLoop(Tail(items),
             IF Upper(Head(items).key) \in _DB_BASE_OPTIONS
             THEN [acc EXCEPT !.config =
                      Update(@, Upper(Head(items).key) :> Head(items).value)]
             ELSE [acc EXCEPT !.db_options =
                      OdPut(@, Head(items).key, Head(items).value)])

SchemaEngines ==
    {IdV("django.contrib.gis.db.backends.postgis"),
     IdV("django.db.backends.postgresql_psycopg2"),
     IdV("django_redshift_backend")}

\* currentSchema becomes options for the engines listed
DbCurrentSchema(db_options, engine) ==
    IF OdHas(db_options, Chars("currentSchema")) /\ engine \in SchemaEngines
    THEN OdPut(OdDel(db_options, Chars("currentSchema")), Chars("options"),
               StrV(Chars("-c search_path=")
                    \o PyStr(OdGet(db_options, Chars("currentSchema")))))
    ELSE db_options

\* path: ':memory:' for an empty sqlite path, the authority for ldap
DbPath(url) ==
    IF url.scheme = Chars("sqlite") /\ DecodedPath(url) = <<>> THEN Chars(":memory:")
    ELSE IF url.scheme = Chars("ldap")
    THEN url.scheme \o Chars("://") \o PyStr(hostname(url))
         \o (IF Truthy(port(url)) THEN <<":">> \o PyStr(port(url)) ELSE <<>>)
    ELSE DecodedPath(url)

\* the authority without its user and port, its %2f escapes made '/'
UnescapedHost(netloc) ==
    LET n2 == IF Contains(netloc, <<"@">>) THEN RSplit1(netloc, "@")[2] ELSE netloc
        n3 == IF Contains(n2, <<":">>) THEN Split1(n2, ":")[1] ELSE n2
    IN  Replace(Replace(n3, Chars("%2f"), <<"/">>), Chars("%2F"), <<"/">>)

\* hostname: url.hostname or '', or the authority's when it holds a %2f
DbHost(url) ==
    IF Contains(Lower(Or(hostname(url), StrV(<<>>)).v), Chars("%2f"))
    THEN UnescapedHost(url.netloc)
    ELSE Or(hostname(url), StrV(<<>>)).v

\* engine: the argument unless it is None, else the table's
DbEngine(url, engineArg) ==
    IF engineArg = None THEN DB_SCHEMES[url.scheme] ELSE engineArg

\* port: a str for the oracle engine
DbPort(url, engine) ==
    IF Truthy(port(url)) /\ engine = DB_SCHEMES[Chars("oracle")]
    THEN StrV(PyStr(port(url))) ELSE port(url)

\* config.update({NAME, USER, PASSWORD, HOST, PORT})
DbBase(url, path, host, prt) ==
       (Chars("NAME") :> StrV(path))
    @@ (Chars("USER") :> Or(username(url), StrV(<<>>)))
    @@ (Chars("PASSWORD") :> Or(password(url), StrV(<<>>)))
    @@ (Chars("HOST") :> StrV(host))
    @@ (Chars("PORT") :> Or(prt, StrV(<<>>)))

\* oracle: NAME and HOST swapped for an empty path; PORT dropped or made a str
DbOracle(path, config) ==
    LET c == IF path = <<>>
             THEN Update(config, (Chars("NAME") :> config[Chars("HOST")])
                              @@ (Chars("HOST") :> StrV(<<>>)))
             ELSE config
    IN  IF ~Truthy(c[Chars("PORT")]) THEN Delete(c, Chars("PORT"))
        ELSE Update(c, Chars("PORT") :> StrV(PyStr(c[Chars("PORT")])))

\* the postgres socket path and the oracle quirks
DbQuirks(url, path, config) ==
    IF url.scheme = Chars("postgres") /\ StartsWith(path, <<"/">>)
    THEN Update(config, (Chars("HOST") :> StrV(RSplit1(path, "/")[1]))
                     @@ (Chars("NAME") :> StrV(RSplit1(path, "/")[2])))
    ELSE IF url.scheme = Chars("oracle") THEN DbOracle(path, config)
    ELSE config

\* the query string into config and db_options
DbQuery(url, engine, acc) ==
    IF url.query # <<>>
    THEN [DbQueryLoop(parse_qs(url.query), acc) EXCEPT
             !.db_options = DbCurrentSchema(@, engine)]
    ELSE acc

\* the options argument into config and db_options
DbOptionsArg(options, acc) ==
    IF Truthy(options) THEN DbOptionsLoop(options.v, acc) ELSE acc

\* OPTIONS when db_options is not empty, and ENGINE
DbFinish(acc, engine) ==
    Update(IF acc.db_options # <<>>
           THEN Update(acc.config, Chars("OPTIONS") :> DictV(UpperDict(acc.db_options)))
           ELSE acc.config,
           IF Truthy(engine) THEN Chars("ENGINE") :> engine ELSE EmptyDict)

DbRecord(url, engine, options) ==
    DbFinish(
        DbOptionsArg(options,
            DbQuery(url, engine,
                [config |-> DbQuirks(url, DbPath(url),
                                DbBase(url, DbPath(url), DbHost(url), DbPort(url, engine))),
                 db_options |-> <<>>])),
        engine)

\* the record of a parsed url, or the error of a port that is no number or of a
\* scheme the table lacks
DbParse(url, engineArg, options, e) ==
    IF url.scheme = Chars("ldap") /\ port(url).t = "ValueError"
    THEN Raise("ValueError", hostinfo(url).port.v, e)
    ELSE IF engineArg = None /\ url.scheme \notin DOMAIN DB_SCHEMES
    THEN Raise("KeyError", url.scheme, e)
    ELSE IF port(url).t = "ValueError"
    THEN Raise("ValueError", hostinfo(url).port.v, e)
    ELSE Return(DictV(DbRecord(url, DbEngine(url, engineArg), options)), e)

\* after _check_var: the sqlite shortcut, or the url parsed
DbChecked(chk, engine, options) ==
    IF chk.kind = "raise" THEN chk
    ELSE IF chk.val = StrV(Chars("sqlite://:memory"))
    THEN Return(DictV((Chars("ENGINE") :> DB_SCHEMES[Chars("sqlite")])
                   @@ (Chars("NAME") :> StrV(Chars(":memory:")))), chk.env)
    ELSE DbParse(urlparse(chk.val.v), engine, options, chk.env)

database_url(e, exc, var, default, engine, options) ==
    DbChecked(_check_var(e, exc, var, default), engine, options)

(***************************************************************************)
(* Env.cache_url                                                           *)
(***************************************************************************)
\* a list of one string is that string
Collapse(parts) == IF Len(parts) = 1 THEN StrV(parts[1]) ELSE ListV(parts)

\* the loop over parse_qs(url.query).items(): acc is [config, options]; the
\* keys are upper-cased, base keys go to config and the rest to options
RECURSIVE QueryLoop(_, _, _, _)
QueryLoop(items, base, conv, acc) ==
    IF items = <<>> THEN acc
    ELSE QueryLoop(Tail(items), base, conv,
             IF Upper(Head(items).key) \in base
             THEN [acc EXCEPT !.config =
                      Update(@, Upper(Head(items).key)
                                    :> Convert(conv, StrV(Head(items).values[1])))]
             ELSE [acc EXCEPT !.options =
                      OdPut(@, Upper(Head(items).key),
                            Convert(conv, StrV(Head(items).values[1])))])

\* od.update(items)
RECURSIVE OdUpdate(_, _)
OdUpdate(od, items) ==
    IF items = <<>> THEN od
    ELSE OdUpdate(OdPut(od, Head(items).key, Head(items).value), Tail(items))

\* [key.upper(), value] of each item
UpperItems(items) ==
    [i \in 1..Len(items) |-> [key |-> Upper(items[i].key), value |-> items[i].value]]

\* BACKEND: the argument when it is given, else the table's
CacheBackend(url, backend) ==
    IF Truthy(backend) THEN backend ELSE CACHE_SCHEMES[url.scheme]

\* scheme://loc/path for each loc of the authority
Locations(scheme, url) ==
    LET locs == Split(url.netloc, ",")
    IN  [i \in 1..Len(locs) |-> scheme \o Chars("://") \o locs[i] \o url.path]

\* a redis location scheme that keeps the url's scheme as it is
CacheRedisSchemeKept(url) == url.scheme

\* the scheme of a redis location
CacheRedisScheme(url) ==
    IF Truthy(hostname(url)) THEN Replace(url.scheme, Chars("cache"), <<>>)
    ELSE Chars("unix")

\* LOCATION
CacheLocation(url) ==
    IF url.path # <<>>
       /\ url.scheme \in {Chars("unix"), Chars("memcache"), Chars("pymemcache")}
    THEN StrV(Chars("unix:") \o url.path)
    ELSE IF StartsWith(url.scheme, Chars("redis"))
    THEN Collapse(Locations(CacheRedisScheme(url), url))
    ELSE IF url.scheme = Chars("filecache") THEN StrV(url.netloc \o url.path)
    ELSE Collapse(Split(url.netloc, ","))

\* the query string into config and cache_options
CacheQuery(url, acc) ==
    IF url.query # <<>>
    THEN QueryLoop(parse_qs(url.query), _CACHE_BASE_OPTIONS, "same", acc)
    ELSE acc

\* OPTIONS: cache_options, updated with the options argument
CacheFinish(acc, options) ==
    Update(acc.config,
           Chars("OPTIONS") :>
               DictV(UpperDict(IF Truthy(options)
                               THEN OdUpdate(acc.options, UpperItems(options.v))
                               ELSE acc.options)))

CacheParse(url, backend, options, e) ==
    IF ~Truthy(backend) /\ url.scheme \notin DOMAIN CACHE_SCHEMES
    THEN Raise("KeyError", url.scheme, e)
    ELSE Return(DictV(CacheFinish(
                    CacheQuery(url,
                        [config |-> (Chars("BACKEND") :> CacheBackend(url, backend))
                                 @@ (Chars("LOCATION") :> CacheLocation(url)),
                         options |-> <<>>]),
                    options)), e)

CacheChecked(chk, backend, options) ==
    IF chk.kind = "raise" THEN chk
    ELSE CacheParse(urlparse(chk.val.v), backend, options, chk.env)

cache_url(e, exc, var, default, backend, options) ==
    CacheChecked(_check_var(e, exc, var, default), backend, options)

(***************************************************************************)
(* Env.email_url                                                           *)
(***************************************************************************)
\* config = {EMAIL_FILE_PATH, EMAIL_HOST_USER, EMAIL_HOST_PASSWORD, EMAIL_HOST,
\* EMAIL_PORT}
EmailBase(url) ==
       (Chars("EMAIL_FILE_PATH") :> StrV(DecodedPath(url)))
    @@ (Chars("EMAIL_HOST_USER") :> username(url))
    @@ (Chars("EMAIL_HOST_PASSWORD") :> password(url))
    @@ (Chars("EMAIL_HOST") :> hostname(url))
    @@ (Chars("EMAIL_PORT") :> _int(port(url)))

\* a scheme test that does not look at the backend argument
EmailKnownByScheme(url, backend) == url.scheme \in DOMAIN EMAIL_SCHEMES

\* a backend is given, or the table has the scheme
EmailKnown(url, backend) == Truthy(backend) \/ url.scheme \in DOMAIN EMAIL_SCHEMES

\* EMAIL_BACKEND: the argument when it is given, else the table's
EmailBackend(url, backend) ==
    IF Truthy(backend) THEN backend ELSE EMAIL_SCHEMES[url.scheme]

\* EMAIL_USE_TLS / EMAIL_USE_SSL by scheme
EmailSecurity(url) ==
    IF url.scheme \in {Chars("smtps"), Chars("smtp+tls")}
    THEN Chars("EMAIL_USE_TLS") :> BoolV(TRUE)
    ELSE IF url.scheme = Chars("smtp+ssl")
    THEN Chars("EMAIL_USE_SSL") :> BoolV(TRUE)
    ELSE EmptyDict

\* the query string into config and email_options
EmailQuery(url, acc) ==
    IF url.query # <<>>
    THEN QueryLoop(parse_qs(url.query), _EMAIL_BASE_OPTIONS, "int", acc)
    ELSE acc

\* an ordered dict, updated with the options argument when one is given
WithOptions(od, options) == IF Truthy(options) THEN OdUpdate(od, options.v) ELSE od

\* OPTIONS when od is not empty
FinishOptions(config, od) ==
    IF od # <<>> THEN Update(config, Chars("OPTIONS") :> DictV(UpperDict(od)))
    ELSE config

\* OPTIONS from the options of the query and the options argument
Finish(acc, options) == FinishOptions(acc.config, WithOptions(acc.options, options))

EmailParse(url, exc, backend, options, e) ==
    IF port(url).t = "ValueError"
    THEN Raise("ValueError", hostinfo(url).port.v, e)
    ELSE IF ~EmailKnown(url, backend)
    THEN Raise(exc, Chars("Invalid email schema ") \o url.scheme, e)
    ELSE Return(DictV(Finish(
                    EmailQuery(url,
                        [config |-> Update(Update(EmailBase(url),
                                               Chars("EMAIL_BACKEND") :>
                                                   EmailBackend(url, backend)),
                                           EmailSecurity(url)),
                         options |-> <<>>]),
                    options)), e)

EmailChecked(chk, exc, backend, options) ==
    IF chk.kind = "raise" THEN chk
    ELSE EmailParse(urlparse(chk.val.v), exc, backend, options, chk.env)

email_url(e, exc, var, default, backend, options) ==
    EmailChecked(_check_var(e, exc, var, default), exc, backend, options)

(***************************************************************************)
(* Env.search_url                                                          *)
(***************************************************************************)
\* config[key] = conv(params[key][0]) when the query has the key
Promote(config, params, key, conv) ==
    IF QsHas(params, key) THEN Update(config, key :> Convert(conv, StrV(QsFirst(params, key))))
    ELSE config

\* params = parse_qs(url.query) when there is a query
SearchParams(url) == IF url.query # <<>> THEN parse_qs(url.query) ELSE <<>>

\* ENGINE: the argument when it is given, else the table's
SearchEngine(url, engine) ==
    IF Truthy(engine) THEN engine ELSE SEARCH_SCHEMES[url.scheme]

\* ENGINE and the common params
SearchCommon(url, engine, params) ==
    Promote(Promote(Promote(Chars("ENGINE") :> SearchEngine(url, engine),
        params, Chars("EXCLUDED_INDEXES"), "split"),
        params, Chars("INCLUDE_SPELLING"), "bool"),
        params, Chars("BATCH_SIZE"), "int")

\* KWARGS for solr and elasticsearch
SearchKwargs(url, params, config) ==
    IF url.scheme \in {Chars("solr"), Chars("elasticsearch"), Chars("elasticsearch2")}
    THEN Promote(config, params, Chars("KWARGS"), "same")
    ELSE config

\* the decoded path without one trailing slash
SearchPath(url) ==
    IF EndsWith(DecodedPath(url), <<"/">>)
    THEN Take(DecodedPath(url), Len(DecodedPath(url)) - 1)
    ELSE DecodedPath(url)

\* solr: URL over http and TIMEOUT
SearchSolr(url, params, config) ==
    Promote(Update(config, Chars("URL") :>
                StrV(urlunparse(Chars("http"), url.netloc, SearchPath(url)))),
            params, Chars("TIMEOUT"), "int")

\* a split at the first slash
ElasticSplitFirst(path) ==
    LET split == Split1(path, "/")
    IN  IF Len(split) > 1 THEN [path |-> split[1], index |-> split[2]]
        ELSE [path |-> <<>>, index |-> split[1]]

\* path.rsplit("/", 1): what is before the last slash, and the index after it
ElasticSplit(path) ==
    LET split == RSplit1(path, "/")
    IN  IF Len(split) > 1 THEN [path |-> split[1], index |-> split[2]]
        ELSE [path |-> <<>>, index |-> split[1]]

\* elasticsearch: URL over http, TIMEOUT and INDEX_NAME
SearchElastic(url, params, config) ==
    Update(Promote(Update(config, Chars("URL") :>
                       StrV(urlunparse(Chars("http"), url.netloc,
                                       ElasticSplit(SearchPath(url)).path))),
                   params, Chars("TIMEOUT"), "int"),
           Chars("INDEX_NAME") :> StrV(ElasticSplit(SearchPath(url)).index))

\* the other schemes: PATH, and the params of whoosh and xapian
SearchOther(url, params, config) ==
    IF url.scheme = Chars("whoosh")
    THEN Promote(Promote(Update(config, Chars("PATH") :> StrV(<<"/">> \o SearchPath(url))),
                         params, Chars("STORAGE"), "same"),
                 params, Chars("POST_LIMIT"), "int")
    ELSE IF url.scheme = Chars("xapian")
    THEN Promote(Update(config, Chars("PATH") :> StrV(<<"/">> \o SearchPath(url))),
                 params, Chars("FLAGS"), "same")
    ELSE Update(config, Chars("PATH") :> StrV(<<"/">> \o SearchPath(url)))

\* config.update({k.upper(): v for k, v in options.items()})
SearchOptions(config, options) ==
    IF Truthy(options) THEN Update(config, UpperDict(options.v)) ELSE config

\* what follows the scheme check, on config = ENGINE and the common params
SearchRecord(url, params, config, options) ==
    IF url.scheme = Chars("simple") THEN config
    ELSE IF url.scheme = Chars("solr")
    THEN SearchSolr(url, params, SearchKwargs(url, params, config))
    ELSE IF StartsWith(url.scheme, Chars("elasticsearch"))
    THEN SearchOptions(SearchElastic(url, params, SearchKwargs(url, params, config)),
                       options)
    ELSE SearchOptions(SearchOther(url, params, SearchKwargs(url, params, config)),
                       options)

SearchParse(url, exc, engine, options, e) ==
    IF url.scheme \notin DOMAIN SEARCH_SCHEMES
    THEN Raise(exc, Chars("Invalid search schema ") \o url.scheme, e)
    ELSE Return(DictV(SearchRecord(url, SearchParams(url),
                          SearchCommon(url, engine, SearchParams(url)), options)), e)

SearchChecked(chk, exc, engine, options) ==
    IF chk.kind = "raise" THEN chk
    ELSE SearchParse(urlparse(chk.val.v), exc, engine, options, chk.env)

search_url(e, exc, var, default, engine, options) ==
    SearchChecked(_check_var(e, exc, var, default), exc, engine, options)

(***************************************************************************)
(* Env.queue_url                                                           *)
(***************************************************************************)
\* a port that is the url's alone
QueuePortOfUrl(url) == port(url)

\* port: the url's when it is truthy, else the table's default-port, else None
QueuePort(url) ==
    IF Truthy(port(url)) THEN port(url)
    ELSE IF url.scheme \in DOMAIN QUEUE_SCHEMES
    THEN QUEUE_SCHEMES[url.scheme].defaultPort
    ELSE None

\* 'QUEUE_BACKEND': backend if backend is None else conf['backend']
QueueBackend(url, backend) ==
    IF backend = None THEN backend ELSE QUEUE_SCHEMES[url.scheme].backend

\* amazon*: the endpoint over https
QueueAmazon(url, prt, config) ==
    Update(config, Chars("AWS_SQS_ENDPOINT") :>
        StrV(Chars("https://") \o PyStr(hostname(url))
             \o (IF Truthy(prt) THEN <<":">> \o PyStr(prt) ELSE <<>>)))

\* rabbit*: host and port, or the socket's location when there is no host
QueueRabbit(url, prt, backend, config) ==
    Update((Chars("QUEUE_BACKEND") :> Or(backend, config[Chars("QUEUE_BACKEND")]))
        @@ (Chars("RABBITMQ_HOST") :> Or(hostname(url), StrV(<<>>)))
        @@ (Chars("RABBITMQ_PORT") :> prt),
           IF ~Truthy(hostname(url))
           THEN (Chars("QUEUE_LOCATION") :>
                     StrV(Chars("unix://") \o url.netloc \o url.path))
             @@ (Chars("RABBITMQ_LOCATION") :>
                     StrV(Chars("unix://") \o url.netloc \o url.path))
             @@ (Chars("RABBITMQ_PORT") :> StrV(<<>>))
           ELSE EmptyDict)

\* redis: the locations, unless a backend is given
QueueRedis(url, backend, config) ==
    IF ~Truthy(backend)
    THEN Update(config, Chars("QUEUE_LOCATION") :>
             Collapse(Locations(IF Truthy(hostname(url)) THEN url.scheme
                                ELSE Chars("unix"), url)))
    ELSE config

\* the other schemes: PATH, HOST, PORT
QueueOther(url, prt, config) ==
    Update(config, (Chars("PATH") :> StrV(DecodedPath(url)))
                @@ (Chars("HOST") :> hostname(url))
                @@ (Chars("PORT") :> Or(prt, StrV(<<>>))))

\* the branch of the scheme
QueueByScheme(url, prt, backend, config) ==
    IF StartsWith(url.scheme, Chars("amazon")) THEN QueueAmazon(url, prt, config)
    ELSE IF StartsWith(url.scheme, Chars("rabbit"))
    THEN QueueRabbit(url, prt, backend, config)
    ELSE IF url.scheme = Chars("redis") THEN QueueRedis(url, backend, config)
    ELSE QueueOther(url, prt, config)

\* USER and PASSWORD when the url has a user
QueueUser(url, config) ==
    IF Truthy(username(url))
    THEN Update(config, (Chars("USER") :> Or(username(url), StrV(<<>>)))
                     @@ (Chars("PASSWORD") :> Or(password(url), StrV(<<>>))))
    ELSE config

\* the query string into queue_options
QueueQuery(url, acc) ==
    IF url.query # <<>>
    THEN QueryLoop(parse_qs(url.query), _QUEUE_BASE_OPTIONS, "same", acc)
    ELSE acc

QueueParse(url, backend, options, e) ==
    IF port(url).t = "ValueError"
    THEN Raise("ValueError", hostinfo(url).port.v, e)
    ELSE IF backend # None /\ url.scheme \notin DOMAIN QUEUE_SCHEMES
    THEN Raise("KeyError", Chars("backend"), e)
    ELSE Return(DictV(Finish(
                    QueueQuery(url,
                        [config |-> QueueUser(url,
                                        QueueByScheme(url, QueuePort(url), backend,
                                            Chars("QUEUE_BACKEND") :>
                                                QueueBackend(url, backend))),
                         options |-> <<>>]),
                    options)), e)

QueueChecked(chk, backend, options) ==
    IF chk.kind = "raise" THEN chk
    ELSE QueueParse(urlparse(chk.val.v), backend, options, chk.env)

queue_url(e, exc, var, default, backend, options) ==
    QueueChecked(_check_var(e, exc, var, default), backend, options)

(***************************************************************************)
(* The URLs the environment holds: each is assembled from its parts and    *)
(* stored as the characters of the assembled string.                       *)
(***************************************************************************)
MaxHosts == 2

\* n hosts h1, h2, ...; each with the port 5555 when withPort, and with no
\* port (written -1) otherwise
HostList(n, withPort) ==
    [i \in 1..n |-> [host |-> <<"h">> \o IntToStr(i),
                     port |-> IF withPort THEN 5555 ELSE -1]]

Parts(scheme, auth, user, pass, hosts, path, query) ==
    [scheme |-> scheme, auth |-> auth, user |-> user, pass |-> pass,
     hosts |-> hosts, path |-> path, query |-> query]

HostPort(h) == h.host \o (IF h.port >= 0 THEN <<":">> \o IntToStr(h.port) ELSE <<>>)

\* scheme:[//[user[:pass]@]host[:port][,host...]][/path][?query]
Render(u) ==
    u.scheme \o <<":">>
    \o (IF u.auth
        THEN Chars("//")
             \o (IF u.user = <<>> THEN <<>>
                 ELSE u.user \o (IF u.pass = <<>> THEN <<>> ELSE <<":">> \o u.pass)
                      \o <<"@">>)
             \o Join([i \in 1..Len(u.hosts) |-> HostPort(u.hosts[i])], <<",">>)
        ELSE <<>>)
    \o u.path
    \o (IF u.query = <<>> THEN <<>> ELSE <<"?">> \o u.query)

UnknownScheme == Chars("foo")

\* the schemes of the scheme table for Postgres and the drivers built on it
PostgresFamily ==
    {Chars("postgres"), Chars("postgresql"), Chars("psql"), Chars("pgsql"),
     Chars("postgis"), Chars("redshift")}

\* query strings that spell one option in one or two ways, or name a base option
OptionQueries ==
    {Chars("timeout=1"), Chars("Timeout=2"), Chars("timeout=1&Timeout=2"),
     Chars("Timeout=2&timeout=1"), Chars("conn_max_age=5")}

\* the schema names of the currentSchema queries
SchemaNames == {Chars("public"), Chars("5")}

DbPool ==
    {Parts(s, TRUE, Chars("u"), Chars("p"), HostList(1, wp), path, <<>>) :
        s \in DOMAIN DB_SCHEMES \cup {UnknownScheme},
        wp \in BOOLEAN,
        path \in {<<>>, Chars("/db")}}
    \cup
    {Parts(s, TRUE, Chars("u"), Chars("p"), HostList(1, FALSE), Chars("/db"), q) :
        s \in {Chars("mysql"), Chars("postgres")},
        q \in OptionQueries}
    \cup
    {Parts(s, TRUE, Chars("u"), Chars("p"), HostList(1, FALSE), Chars("/db"),
           Chars("currentSchema=") \o n) :
        s \in PostgresFamily \cup {Chars("mysql")},
        n \in SchemaNames}

CachePool ==
    {Parts(s, TRUE, <<>>, <<>>, HostList(n, TRUE), path, <<>>) :
        s \in DOMAIN CACHE_SCHEMES \cup {UnknownScheme, Chars("rediss")},
        n \in 0..MaxHosts,
        path \in {<<>>, Chars("/5")}}
    \cup
    {Parts(s, TRUE, <<>>, <<>>, HostList(1, FALSE), <<>>, Chars("timeout=30&compress=1")) :
        s \in {Chars("redis"), Chars("memcache")}}

EmailPool ==
    {Parts(s, TRUE, Chars("u"), Chars("p"), HostList(1, TRUE), <<>>, q) :
        s \in DOMAIN EMAIL_SCHEMES \cup {UnknownScheme},
        q \in {<<>>, Chars("EMAIL_USE_TLS=0"), Chars("email_use_tls=1"),
               Chars("EMAIL_USE_TLS=True"), Chars("EMAIL_USE_SSL=0"), Chars("timeout=5")}}

SearchPool ==
    {Parts(s, TRUE, <<>>, <<>>, HostList(1, TRUE), path, <<>>) :
        s \in DOMAIN SEARCH_SCHEMES \cup {UnknownScheme},
        path \in {<<>>, Chars("/"), Chars("/index"), Chars("/index/"), Chars("/a/index"),
                  Chars("/a/b/index/"), Chars("/a%2Findex")}}
    \cup
    {Parts(s, auth, <<>>, <<>>, <<>>, Chars("/a/index"), Chars("TIMEOUT=30")) :
        s \in {Chars("elasticsearch"), Chars("elasticsearch2")},
        auth \in BOOLEAN}
    \cup
    {Parts(s, TRUE, <<>>, <<>>, HostList(1, TRUE), Chars("/a/index"), Chars("TIMEOUT=30")) :
        s \in {Chars("simple"), Chars("solr"), Chars("whoosh")}}

QueuePool ==
    {Parts(s, TRUE, <<>>, <<>>, HostList(n, wp), path, <<>>) :
        s \in DOMAIN QUEUE_SCHEMES \cup {UnknownScheme, Chars("rabbit")},
        n \in 0..MaxHosts,
        wp \in BOOLEAN,
        path \in {<<>>, Chars("/var/run/q.sock")}}
    \cup
    {Parts(Chars("rabbitmq"), FALSE, <<>>, <<>>, <<>>, Chars("/var/run/q.sock"), <<>>),
     Parts(Chars("rabbitmq"), TRUE, <<>>, <<>>, <<[host |-> Chars("h1"), port |-> 0]>>,
           <<>>, <<>>),
     Parts(Chars("rabbitmq"), TRUE, <<>>, <<>>, <<[host |-> <<>>, port |-> 5555]>>,
           Chars("/var/run/q.sock"), <<>>)}

SqliteMemory == Chars("sqlite://:memory")

\* the variable each resolver reads by default, and the URLs it may hold
Vars ==
    {DEFAULT_DATABASE_ENV, DEFAULT_CACHE_ENV, DEFAULT_EMAIL_ENV, DEFAULT_SEARCH_ENV,
     DEFAULT_QUEUE_ENV}

PoolOf(var) ==
    CASE var = DEFAULT_DATABASE_ENV -> DbPool
      [] var = DEFAULT_CACHE_ENV -> CachePool
      [] var = DEFAULT_EMAIL_ENV -> EmailPool
      [] var = DEFAULT_SEARCH_ENV -> SearchPool
      [] var = DEFAULT_QUEUE_ENV -> QueuePool

Rendered == [var \in Vars |-> {Render(u) : u \in PoolOf(var)}]

Urls(var) ==
    Rendered[var] \cup (IF var = DEFAULT_DATABASE_ENV THEN {SqliteMemory} ELSE {})

\* the default= argument of a call: none, or a URL of the family
Defaults(var) ==
    {None, StrV(CASE var = DEFAULT_DATABASE_ENV -> Chars("mysql://h9/db9")
                  [] var = DEFAULT_CACHE_ENV -> Chars("redis://h9/9")
                  [] var = DEFAULT_EMAIL_ENV -> Chars("smtp://h9")
                  [] var = DEFAULT_SEARCH_ENV -> Chars("solr://h9/core9")
                  [] var = DEFAULT_QUEUE_ENV -> Chars("rabbitmq://h9"))}

\* the engine= / backend= argument
Overrides == {None, IdV("custom.Backend")}

\* the options= argument
OptionArgs == {None, OdictV(<<[key |-> Chars("timeout"), value |-> IntV(7)]>>)}

\* the options= argument of database_url: also with a base option
DbOptionArgs ==
    OptionArgs
    \cup {OdictV(<<[key |-> Chars("timeout"), value |-> IntV(7)],
                   [key |-> Chars("conn_max_age"), value |-> IntV(9)]>>)}

ExceptionClasses == {_EXCEPTION_CLS, "MyException"}

(***************************************************************************)
(* The state: an Env, the last resolver call made on it and what the call  *)
(* gave.                                                                   *)
(***************************************************************************)
VARIABLES
    env,        \* Env._env: the mapping, a function from names to values
    exception,  \* Env._exception: the class of the errors the Env raises
    call,       \* the last call since the mapping was last written, if any
    result,     \* what that call returned or raised
    _BOOLEAN_TRUE_BYTES  \* what the generator of the class has yet to yield

vars == <<env, exception, call, result, _BOOLEAN_TRUE_BYTES>>

Call(op, var, default, override, options) ==
    [op |-> op, var |-> var, default |-> default, override |-> override,
     options |-> options]

NoCall == Call("none", <<>>, None, None, None)

NoResult == [kind |-> "none"]

\* what the caller sees of an outcome
Seen(out) ==
    IF out.kind = "return" THEN [kind |-> "return", val |-> out.val]
    ELSE [kind |-> "raise", cls |-> out.cls, msg |-> out.msg]

\* Env(environ={...}, exception=cls) over a mapping with none of the variables
Init ==
    /\ env = EmptyDict
    /\ exception \in ExceptionClasses
    /\ call = NoCall
    /\ result = NoResult
    /\ _BOOLEAN_TRUE_BYTES = TrueBytes

\* a write of the mapping: the record of an earlier call is let go
Write(newEnv) ==
    /\ env' = newEnv
    /\ call' = NoCall
    /\ result' = NoResult
    /\ UNCHANGED <<exception, _BOOLEAN_TRUE_BYTES>>

\* The model works on one variable at a time: an operation on var is taken
\* only while the mapping holds no other variable.
InFocus(var) == DOMAIN env \subseteq {var}

\* env.set(var, value) and env[var] = value
Set(var, value) ==
    /\ InFocus(var)
    /\ Write(set(env, var, value))

\* env.unset(var) and del env[var]
Unset(var) ==
    /\ InFocus(var)
    /\ Write(unset(env, var))

\* env.export(var=value)
Export(var, value) ==
    /\ InFocus(var)
    /\ Write(export(env, <<>>, <<[key |-> var, value |-> value]>>).env)

\* a call of a method: it leaves its outcome and the mapping the method left
Invoke(c, out) ==
    /\ call' = c
    /\ result' = Seen(out)
    /\ env' = out.env
    /\ UNCHANGED <<exception, _BOOLEAN_TRUE_BYTES>>

\* env.database_url(var, default=..., engine=..., options=...)
DatabaseUrl(var, default, engine, options) ==
    /\ InFocus(var)
    /\ Invoke(Call("database_url", var, default, engine, options),
              database_url(env, exception, var, default, engine, options))

\* env.cache_url(var, default=..., backend=..., options=...)
CacheUrl(var, default, backend, options) ==
    /\ InFocus(var)
    /\ Invoke(Call("cache_url", var, default, backend, options),
              cache_url(env, exception, var, default, backend, options))

\* env.email_url(var, default=..., backend=..., options=...)
EmailUrl(var, default, backend, options) ==
    /\ InFocus(var)
    /\ Invoke(Call("email_url", var, default, backend, options),
              email_url(env, exception, var, default, backend, options))

\* env.search_url(var, default=..., engine=..., options=...)
SearchUrl(var, default, engine, options) ==
    /\ InFocus(var)
    /\ Invoke(Call("search_url", var, default, engine, options),
              search_url(env, exception, var, default, engine, options))

\* env.queue_url(var, default=..., backend=..., options=...)
QueueUrl(var, default, backend, options) ==
    /\ InFocus(var)
    /\ Invoke(Call("queue_url", var, default, backend, options),
              queue_url(env, exception, var, default, backend, options))

\* env._check_var(var, default), var a variable's name or the empty name
CheckVar(var, default) ==
    /\ var # <<>> => InFocus(var)
    /\ Invoke(Call("_check_var", var, default, None, None),
              _check_var(env, exception, var, default))

Next ==
    \/ \E var \in Vars : \E value \in {StrV(u) : u \in Urls(var)} \cup {None} :
          Set(var, value)
    \/ \E var \in Vars : Unset(var)
    \/ \E var \in Vars : \E value \in Defaults(var) : Export(var, value)
    \/ \E d \in Defaults(DEFAULT_DATABASE_ENV), o \in Overrides, opt \in DbOptionArgs :
          DatabaseUrl(DEFAULT_DATABASE_ENV, d, o, opt)
    \/ \E d \in Defaults(DEFAULT_CACHE_ENV), o \in Overrides, opt \in OptionArgs :
          CacheUrl(DEFAULT_CACHE_ENV, d, o, opt)
    \/ \E d \in Defaults(DEFAULT_EMAIL_ENV), o \in Overrides, opt \in OptionArgs :
          EmailUrl(DEFAULT_EMAIL_ENV, d, o, opt)
    \/ \E d \in Defaults(DEFAULT_SEARCH_ENV), o \in Overrides, opt \in OptionArgs :
          SearchUrl(DEFAULT_SEARCH_ENV, d, o, opt)
    \/ \E d \in Defaults(DEFAULT_QUEUE_ENV), o \in Overrides, opt \in OptionArgs :
          QueueUrl(DEFAULT_QUEUE_ENV, d, o, opt)
    \/ \E var \in {DEFAULT_CACHE_ENV, <<>>} : \E d \in Defaults(DEFAULT_CACHE_ENV) :
          CheckVar(var, d)

Spec == Init /\ [][Next]_vars

(***************************************************************************)
(* The mapping's own methods, on an Env made over a plain mapping of       *)
(* strings, and Env.is_true.  Every call is recorded with its arguments.   *)
(***************************************************************************)
MapKeys == {Chars("A"), Chars("B")}

\* the values a caller passes to be stored
MapValues == {None, StrV(Chars("v")), IntV(1), BoolV(TRUE)}

\* the names a caller asks for: a str, or an int that str() turns into one
KeyArgs == {StrV(k) : k \in MapKeys} \cup {IntV(1)}

Pair(k, v) == [key |-> k, value |-> v]

\* the arguments of the export calls: keyword pairs alone, a dictionary
\* followed by a keyword pair, and a positional argument that is no dictionary
ExportInputs ==
    {[args |-> <<>>, kwargs |-> <<Pair(k, v)>>] : k \in MapKeys, v \in MapValues}
    \cup {[args |-> <<OdictV(<<Pair(k[1], v[1])>>)>>, kwargs |-> <<Pair(k[2], v[2])>>] :
             k \in MapKeys \X MapKeys, v \in {None, IntV(1)} \X {None, IntV(1)}}
    \cup {[args |-> <<OdictV(<<Pair(Chars("A"), None), Pair(Chars("B"), IntV(1))>>)>>,
           kwargs |-> <<>>],
          [args |-> <<OdictV(<<Pair(Chars("B"), IntV(1))>>), IntV(1)>>,
           kwargs |-> <<Pair(Chars("A"), None)>>]}

\* the arguments of the is_true calls
TruthInputs ==
    {None, BoolV(FALSE), BoolV(TRUE), IntV(0), IntV(1),
     StrV(<<>>), StrV(Chars("0")), StrV(Chars("1")), StrV(Chars("no")),
     BytesV(<<>>), BytesV(Chars("0")), BytesV(Chars("1")), BytesV(Chars("no"))}

MapCall(op, args, kwargs) == [op |-> op, args |-> args, kwargs |-> kwargs]

\* Env(environ={'A': 'a'}, exception=cls)
InitMap ==
    /\ env = (Chars("A") :> StrV(Chars("a")))
    /\ exception \in ExceptionClasses
    /\ call = MapCall("none", <<>>, <<>>)
    /\ result = NoResult
    /\ _BOOLEAN_TRUE_BYTES = TrueBytes

\* env.set(var, value)
MapSet(var, value) ==
    Invoke(MapCall("set", <<StrV(var), value>>, <<>>),
           Return(None, set(env, var, value)))

\* env[var] = value
SetItem(var, value) ==
    Invoke(MapCall("__setitem__", <<StrV(var), value>>, <<>>),
           Return(None, set(env, var, value)))

\* env.setdefault(var, value)
SetDefault(var, value) ==
    Invoke(MapCall("setdefault", <<StrV(var), value>>, <<>>),
           setdefault(env, var, value))

\* env.unset(var)
MapUnset(var) ==
    Invoke(MapCall("unset", <<StrV(var)>>, <<>>), Return(None, unset(env, var)))

\* del env[var]
DelItem(var) ==
    Invoke(MapCall("__delitem__", <<StrV(var)>>, <<>>), Return(None, unset(env, var)))

\* env.pop(var, default)
Pop(var, default) ==
    Invoke(MapCall("pop", <<StrV(var), default>>, <<>>), pop(env, var, default))

\* env.export(*args, **kwargs)
MapExport(args, kwargs) ==
    Invoke(MapCall("export", args, kwargs), export(env, args, kwargs))

\* env[var]
GetItem(var) ==
    Invoke(MapCall("__getitem__", <<var>>, <<>>), __getitem__(env, exception, var))

\* var in env
In(var) ==
    Invoke(MapCall("__contains__", <<var>>, <<>>),
           Return(BoolV(__contains__(env, var)), env))

\* Env.is_true(val), on this Env or on any other: the generator is the class's
IsTrueCall(val) ==
    /\ call' = MapCall("is_true", <<val>>, <<>>)
    /\ result' = [kind |-> "return",
                  val |-> BoolV(is_true(val, _BOOLEAN_TRUE_BYTES).val)]
    /\ _BOOLEAN_TRUE_BYTES' = is_true(val, _BOOLEAN_TRUE_BYTES).left
    /\ UNCHANGED <<env, exception>>

NextMap ==
    \/ \E var \in MapKeys, value \in MapValues : MapSet(var, value)
    \/ \E var \in MapKeys, value \in MapValues : SetItem(var, value)
    \/ \E var \in MapKeys, value \in MapValues : SetDefault(var, value)
    \/ \E var \in MapKeys : MapUnset(var)
    \/ \E var \in MapKeys : DelItem(var)
    \/ \E var \in MapKeys, default \in {None, StrV(Chars("d"))} : Pop(var, default)
    \/ \E c \in ExportInputs : MapExport(c.args, c.kwargs)
    \/ \E var \in KeyArgs : GetItem(var)
    \/ \E var \in KeyArgs : In(var)
    \/ \E val \in TruthInputs : IsTrueCall(val)

SpecMap == InitMap /\ [][NextMap]_vars

(***************************************************************************)
(* The properties.  A call is judged against the parts its URL was         *)
(* assembled from, not against a second parse of the URL.                  *)
(***************************************************************************)
Resolvers == {"database_url", "cache_url", "email_url", "search_url", "queue_url"}

\* the resolver of a name
Resolve(op, e, exc, var, default, override, options) ==
    CASE op = "database_url" -> database_url(e, exc, var, default, override, options)
      [] op = "cache_url" -> cache_url(e, exc, var, default, override, options)
      [] op = "email_url" -> email_url(e, exc, var, default, override, options)
      [] op = "search_url" -> search_url(e, exc, var, default, override, options)
      [] op = "queue_url" -> queue_url(e, exc, var, default, override, options)

\* the parts each URL of a pool was assembled from
Origins ==
    [var \in Vars |->
        [s \in Rendered[var] |-> CHOOSE u \in PoolOf(var) : Render(u) = s]]

\* the last call read its URL from the mapping
Read == call.var \in DOMAIN env /\ env[call.var] # None

\* ... and the URL is one of the pool of the variable
FromPool == Read /\ env[call.var].v \in Rendered[call.var]

\* the parts of the URL the last call read
Origin == Origins[call.var][env[call.var].v]

\* the last call returned a record
Returned == result.kind = "return"

\* the record the last call returned
Record == result.val.v

\* the authority of a URL as it was written
Authority(u) == Join([i \in 1..Len(u.hosts) |-> HostPort(u.hosts[i])], <<",">>)

\* the comma-separated parts of the authority: one empty part when it is empty
HostParts(u) ==
    IF u.hosts = <<>> THEN << <<>> >>
    ELSE [i \in 1..Len(u.hosts) |-> HostPort(u.hosts[i])]

\* the host names of the authority, joined as they were written
HostNames(u) == Join([i \in 1..Len(u.hosts) |-> u.hosts[i].host], <<",">>)

\* the URL names a host
HasHost(u) == u.hosts # <<>> /\ u.hosts[1].host # <<>>

\* a bare string for one part, a list otherwise
Shape(parts) == IF Len(parts) = 1 THEN StrV(parts[1]) ELSE ListV(parts)

\* true, as Python compares: True == 1
IsTrue(v) == v = BoolV(TRUE) \/ v = IntV(1)

\* the error of a required variable that is not set
MissingError ==
    [kind |-> "raise", cls |-> exception,
     msg |-> Chars("Expected ") \o call.var \o Chars(" is not set in environment")]

\* C1: a resolver called on a variable the mapping lacks raises the configured
\* exception class when no default is given, and with a default URL it does
\* not raise that error and gives what it gives on a mapping that holds the
\* default URL under the variable.
C1_MissingVariable ==
    (call.op \in Resolvers /\ call.var \notin DOMAIN env) =>
        IF call.default = None
        THEN result = MissingError
        ELSE /\ result # MissingError
             /\ result = Seen(Resolve(call.op, call.var :> call.default, exception,
                                      call.var, None, call.override, call.options))

\* C1: search_url was called with no default on a mapping without SEARCH_URL,
\* under a configured exception class, and raised that class.
C1_Witness ==
    /\ call.op = "search_url"
    /\ call.var \notin DOMAIN env
    /\ call.default = None
    /\ exception = "MyException"
    /\ result.kind = "raise"
    /\ result.cls = "MyException"

\* C2: for a URL of a scheme of the database table, the literal
\* 'sqlite://:memory' included, database_url returns a record with ENGINE, and
\* ENGINE is the engine argument when one is given and the table's driver of
\* the scheme otherwise.
C2_EngineAlways ==
    (/\ call.op = "database_url"
     /\ Read
     /\ \/ env[call.var].v = SqliteMemory
        \/ (FromPool /\ Origin.scheme \in DOMAIN DB_SCHEMES)) =>
        /\ Returned
        /\ Chars("ENGINE") \in DOMAIN Record
        /\ Record[Chars("ENGINE")] =
              IF call.override # None THEN call.override
              ELSE IF env[call.var].v = SqliteMemory THEN DB_SCHEMES[Chars("sqlite")]
              ELSE DB_SCHEMES[Origin.scheme]

\* the scheme segment of a redis location: 'unix' without a host, else the
\* scheme without 'cache'
RedisSegment(u) ==
    IF ~HasHost(u) THEN Chars("unix")
    ELSE IF u.scheme = Chars("rediscache") THEN Chars("redis")
    ELSE u.scheme

\* C3: cache_url's BACKEND is the backend argument when given, else the
\* table's entry; for a scheme that is neither filecache nor redis-prefixed
\* and an empty path, LOCATION is the authority as a string when it has no
\* comma and the list of its parts otherwise; for a redis-prefixed scheme
\* LOCATION is '<segment>://<host><path>' per part of the authority, a string
\* for one part and a list otherwise.
C3_CacheLocation ==
    (/\ call.op = "cache_url"
     /\ FromPool
     /\ (call.override # None \/ Origin.scheme \in DOMAIN CACHE_SCHEMES)) =>
        /\ Returned
        /\ Record[Chars("BACKEND")] =
              IF call.override # None THEN call.override
              ELSE CACHE_SCHEMES[Origin.scheme]
        /\ (/\ Origin.scheme # Chars("filecache")
            /\ ~StartsWith(Origin.scheme, Chars("redis"))
            /\ Origin.path = <<>>) =>
               Record[Chars("LOCATION")] = Shape(HostParts(Origin))
        /\ StartsWith(Origin.scheme, Chars("redis")) =>
               Record[Chars("LOCATION")] =
                  Shape([i \in 1..Len(HostParts(Origin)) |->
                            RedisSegment(Origin) \o Chars("://")
                            \o HostParts(Origin)[i] \o Origin.path])

\* C3: cache_url was called on a rediscache URL of two hosts and a path, and
\* returned the list of the two redis locations.
C3_Witness ==
    /\ call.op = "cache_url"
    /\ Read
    /\ env[call.var] = StrV(Chars("rediscache://h1:5555,h2:5555/5"))
    /\ Returned
    /\ Record[Chars("LOCATION")] =
          ListV(<<Chars("redis://h1:5555/5"), Chars("redis://h2:5555/5")>>)

\* C4: for every URL of scheme smtps or smtp+tls, with or without a query
\* string, the record of email_url has EMAIL_USE_TLS true, and for every URL of
\* scheme smtp+ssl it has EMAIL_USE_SSL true.
C4_EmailSecurity ==
    (call.op = "email_url" /\ FromPool /\ Returned) =>
        /\ Origin.scheme \in {Chars("smtps"), Chars("smtp+tls")} =>
              /\ Chars("EMAIL_USE_TLS") \in DOMAIN Record
              /\ IsTrue(Record[Chars("EMAIL_USE_TLS")])
        /\ Origin.scheme = Chars("smtp+ssl") =>
              /\ Chars("EMAIL_USE_SSL") \in DOMAIN Record
              /\ IsTrue(Record[Chars("EMAIL_USE_SSL")])

\* the scheme table of email_url or search_url
SchemeTable(op) ==
    IF op = "email_url" THEN DOMAIN EMAIL_SCHEMES ELSE DOMAIN SEARCH_SCHEMES

\* the last call raised the configured class with a message that has the scheme
UnknownSchemeError ==
    /\ result.kind = "raise"
    /\ result.cls = exception
    /\ StartsWith(result.msg, Chars("Invalid "))
    /\ Contains(result.msg, Origin.scheme)

\* C5, as stated: email_url and search_url raise the unknown-scheme error
\* exactly when the scheme is absent from the table and no override is given,
\* and return a record otherwise.
C5_UnknownSchemeUnlessOverride ==
    (call.op \in {"email_url", "search_url"} /\ FromPool) =>
        IF Origin.scheme \notin SchemeTable(call.op) /\ call.override = None
        THEN UnknownSchemeError
        ELSE Returned

\* C5, amended: email_url raises the unknown-scheme error exactly when the
\* scheme is absent from its table and no backend is given; search_url raises
\* it exactly when the scheme is absent from its table, an engine given or
\* not; otherwise a record is returned.
C5_UnknownScheme ==
    (call.op \in {"email_url", "search_url"} /\ FromPool) =>
        IF /\ Origin.scheme \notin SchemeTable(call.op)
           /\ (call.op = "search_url" \/ call.override = None)
        THEN UnknownSchemeError
        ELSE Returned

\* C5: search_url was called with an engine on a URL of a scheme its table
\* lacks, and raised.
C5_Witness ==
    /\ call.op = "search_url"
    /\ FromPool
    /\ Origin.scheme = UnknownScheme
    /\ call.override # None
    /\ UnknownSchemeError

\* C6: for every scheme of the queue table, the record of queue_url has
\* QUEUE_BACKEND equal to the backend argument when one is given, and to the
\* table's backend of the scheme otherwise.
C6_QueueBackend ==
    (/\ call.op = "queue_url"
     /\ FromPool
     /\ Origin.scheme \in DOMAIN QUEUE_SCHEMES
     /\ Returned) =>
        Record[Chars("QUEUE_BACKEND")] =
           IF call.override # None THEN call.override
           ELSE QUEUE_SCHEMES[Origin.scheme].backend

\* queue_url returned a record for a URL of a scheme that starts with 'rabbit'
Rabbit ==
    /\ call.op = "queue_url"
    /\ FromPool
    /\ StartsWith(Origin.scheme, Chars("rabbit"))
    /\ Returned

\* the rabbit keys of the record, for the port a URL of a host is to give
RabbitKeys(portOfHost) ==
    IF HasHost(Origin)
    THEN /\ Record[Chars("RABBITMQ_HOST")] = StrV(HostNames(Origin))
         /\ Record[Chars("RABBITMQ_PORT")] = portOfHost
         /\ Chars("QUEUE_LOCATION") \notin DOMAIN Record
         /\ Chars("RABBITMQ_LOCATION") \notin DOMAIN Record
    ELSE /\ Record[Chars("RABBITMQ_HOST")] = StrV(<<>>)
         /\ Record[Chars("RABBITMQ_PORT")] = StrV(<<>>)
         /\ Record[Chars("QUEUE_LOCATION")] =
               StrV(Chars("unix://") \o Authority(Origin) \o Origin.path)
         /\ Record[Chars("RABBITMQ_LOCATION")] =
               StrV(Chars("unix://") \o Authority(Origin) \o Origin.path)

Elastic ==
    /\ call.op = "search_url"
    /\ FromPool
    /\ Origin.scheme \in {Chars("elasticsearch"), Chars("elasticsearch2")}
    /\ Returned

\* the decoded path of a URL without one trailing slash
Stripped(u) ==
    IF EndsWith(UnquotePlus(Drop(u.path, 1)), <<"/">>)
    THEN Take(UnquotePlus(Drop(u.path, 1)), Len(UnquotePlus(Drop(u.path, 1))) - 1)
    ELSE UnquotePlus(Drop(u.path, 1))

\* what follows the last slash of p: p itself when it has none
AfterLastSlash(p) == IF RFind(p, "/") = 0 THEN p ELSE Drop(p, RFind(p, "/"))

\* what precedes the last slash of p: nothing when it has none
BeforeLastSlash(p) == IF RFind(p, "/") = 0 THEN <<>> ELSE Take(p, RFind(p, "/") - 1)

Fresh ==
    call.op \in Resolvers =>
        result = Seen(Resolve(call.op, env, exception, call.var, call.default,
                              call.override, call.options))

C10_CheckVar ==
    call.op = "_check_var" =>
        IF call.var = <<>>
        THEN result = [kind |-> "return", val |-> call.default]
        ELSE IF call.var \in DOMAIN env
        THEN env[call.var] # None => result = [kind |-> "return", val |-> env[call.var]]
        ELSE IF call.default # None
        THEN result = [kind |-> "return", val |-> call.default]
        ELSE result = MissingError

(***************************************************************************)
(* The mapping's methods, under SpecMap.                                   *)
(***************************************************************************)
\* the pairs an export call was given, in the order the code takes them: the
\* items of each dictionary, then the keyword pairs
RECURSIVE ItemsOf(_)
ItemsOf(args) == IF args = <<>> THEN <<>> ELSE args[1].v \o ItemsOf(Tail(args))

Given(c) == ItemsOf(c.args) \o c.kwargs

\* the places of the pairs that name k
Naming(pairs, k) == {i \in 1..Len(pairs) : pairs[i].key = k}

\* the value the call gave for k: that of the last pair that names it
ValueFor(pairs, k) ==
    pairs[CHOOSE i \in Naming(pairs, k) : \A j \in Naming(pairs, k) : j <= i].value

\* str(v) of the values a caller passes, written out
Str(v) ==
    CASE v = IntV(1) -> Chars("1")
      [] v = BoolV(TRUE) -> Chars("True")
      [] v.t = "str" -> v.v

\* k is held by the mapping after, with str(v), and env[k] gives it
IsSet(after, exc, k, v) ==
    /\ k \in DOMAIN after
    /\ after[k] = StrV(Str(v))
    /\ __contains__(after, StrV(k))
    /\ __getitem__(after, exc, StrV(k)).kind = "return"
    /\ __getitem__(after, exc, StrV(k)).val = StrV(Str(v))

\* k is gone from the mapping after: 'k in env' is false and env[k] raises exc
IsRemoved(after, exc, k) ==
    /\ k \notin DOMAIN after
    /\ ~__contains__(after, StrV(k))
    /\ __getitem__(after, exc, StrV(k)).kind = "raise"
    /\ __getitem__(after, exc, StrV(k)).cls = exc
    /\ __getitem__(after, exc, StrV(k)).msg = Chars("Key '") \o k \o Chars("' not found")

\* k is in after what it was in before
IsKept(before, after, k) ==
    /\ k \in DOMAIN after <=> k \in DOMAIN before
    /\ k \in DOMAIN before => after[k] = before[k]

Exported(before, after, exc, pairs) ==
    \A k \in DOMAIN before \cup DOMAIN after \cup {pairs[i].key : i \in 1..Len(pairs)} :
        IF Naming(pairs, k) = {} THEN IsKept(before, after, k)
        ELSE IF ValueFor(pairs, k) = None THEN IsRemoved(after, exc, k)
        ELSE IsSet(after, exc, k, ValueFor(pairs, k))

\* an export call whose positional arguments are all dictionaries
OnlyDicts(c) == \A i \in 1..Len(c.args) : c.args[i].t = "odict"

\* C11: a step of Env.export given dictionaries and/or keyword pairs returns,
\* and leaves each key whose value is not None held with str(value), so that
\* env[k] == str(value), each key whose value is None out of the mapping, so
\* that 'k in env' is false and env[k] raises the Env's configured exception
\* class, and every other key as it was.  A key named more than once has the
\* value of the last pair that names it, dictionaries before keyword pairs.
C11_Export ==
    [][(call'.op = "export" /\ OnlyDicts(call'))
          => /\ result'.kind = "return"
             /\ Exported(env, env', exception', Given(call'))]_vars

\* an export of a dictionary and a keyword pair has removed 'A', which the
\* mapping was made with, and stored '1' for the int 1 under 'B'
C11_Witness ==
    /\ call.op = "export"
    /\ call.args # <<>>
    /\ call.kwargs # <<>>
    /\ OnlyDicts(call)
    /\ result.kind = "return"
    /\ Naming(Given(call), Chars("A")) # {}
    /\ Naming(Given(call), Chars("B")) # {}
    /\ ValueFor(Given(call), Chars("A")) = None
    /\ ValueFor(Given(call), Chars("B")) = IntV(1)
    /\ DOMAIN env = {Chars("B")}
    /\ env[Chars("B")] = StrV(Chars("1"))
    /\ exception = "MyException"

(***************************************************************************)
(* The options of database_url and search_url, under Spec.                 *)
(***************************************************************************)
\* the keys of a query string key=value&key=value
QueryKeys(q) ==
    IF q = <<>> THEN {}
    ELSE {Split1(Split(q, "&")[i], "=")[1] : i \in 1..Len(Split(q, "&"))}

\* the items of the options argument of the last call
OptionItems == IF call.options = None THEN <<>> ELSE call.options.v

OptionKeys == {OptionItems[i].key : i \in 1..Len(OptionItems)}

\* the key is at the top level of the record, upper-cased
AtTop(k) == Upper(k) \in DOMAIN Record

\* the key is under OPTIONS, upper-cased
InOptions(k) ==
    /\ Chars("OPTIONS") \in DOMAIN Record
    /\ Upper(k) \in DOMAIN Record[Chars("OPTIONS")].v

\* what the record holds for the key, where the split puts it
Held(k) ==
    IF Upper(k) \in _DB_BASE_OPTIONS THEN Record[Upper(k)]
    ELSE Record[Chars("OPTIONS")].v[Upper(k)]

\* C12: in the record of database_url, a key of the query string or of the
\* options argument whose upper-cased form is in _DB_BASE_OPTIONS is at the top
\* level under the upper-cased key, every other key is under OPTIONS only,
\* upper-cased, and a key of the options argument has the caller's value,
\* however the query string spells the same key.
C12_DatabaseOptions ==
    (/\ call.op = "database_url"
     /\ FromPool
     /\ Returned
     /\ Origin.query \in OptionQueries) =>
        /\ \A k \in QueryKeys(Origin.query) \cup OptionKeys :
              IF Upper(k) \in _DB_BASE_OPTIONS THEN AtTop(k)
              ELSE InOptions(k) /\ ~AtTop(k)
        /\ \A i \in 1..Len(OptionItems) : Held(OptionItems[i].key) = OptionItems[i].value

\* C13: for a URL of a scheme of the Postgres family with the query
\* currentSchema=<name>, and no engine argument, database_url returns a record
\* whose OPTIONS holds '-c search_path=<name>' and holds no currentSchema key in
\* any spelling.
C13_CurrentSchema ==
    \A n \in SchemaNames :
        (/\ call.op = "database_url"
         /\ FromPool
         /\ call.override = None
         /\ Origin.scheme \in PostgresFamily
         /\ Origin.query = Chars("currentSchema=") \o n) =>
            /\ Returned
            /\ Chars("OPTIONS") \in DOMAIN Record
            /\ \E k \in DOMAIN Record[Chars("OPTIONS")].v :
                  Record[Chars("OPTIONS")].v[k] = StrV(Chars("-c search_path=") \o n)
            /\ \A k \in DOMAIN Record[Chars("OPTIONS")].v :
                  Upper(k) # Upper(Chars("currentSchema"))

\* C14: for a URL of a scheme of the search table, search_url given options
\* that are not empty returns a record that holds each key of the options,
\* upper-cased, with the caller's value, whatever the URL gave for that key.
C14_SearchOptions ==
    (/\ call.op = "search_url"
     /\ FromPool
     /\ Origin.scheme \in DOMAIN SEARCH_SCHEMES
     /\ OptionItems # <<>>) =>
        /\ Returned
        /\ \A i \in 1..Len(OptionItems) :
              /\ AtTop(OptionItems[i].key)
              /\ Record[Upper(OptionItems[i].key)] = OptionItems[i].value

(***************************************************************************)
(* Env.is_true and the values of the mapping, under SpecMap.               *)
(***************************************************************************)
\* the characters start with one of the truthy prefixes
TruthyPrefix(s) ==
    \E p \in {Chars("T"), Chars("t"), Chars("1"), Chars("on"), Chars("ok"), Chars("Y"),
              Chars("y"), Chars("en")} : StartsWith(s, p)

\* C15: whatever calls came before, Env.is_true of a str or a bytes returns
\* what its argument alone decides: true exactly when the value starts with one
\* of the truthy prefixes.
C15_IsTrue ==
    (call.op = "is_true" /\ call.args[1].t \in {"str", "bytes"}) =>
        result = [kind |-> "return", val |-> BoolV(TruthyPrefix(call.args[1].v))]

\* C16: every value the mapping holds is a string, so every key for which
\* 'k in env' holds has a string value.
C16_StringValues ==
    \A k \in MapKeys :
        __contains__(env, StrV(k)) => (k \in DOMAIN env /\ env[k].t = "str")


============================================================================
